---- MODULE Spec2Model ----
(***************************************************************************)
(* The Boundary "server" command: Command.Run and its helpers              *)
(* (ParseFlagsAndConfig, StartController, StartWorker, WaitForInterrupt,   *)
(* Reload, connectSchemaManager, ensureManagerConnection, verifyKmsSetup). *)
(*                                                                         *)
(* The main goroutine is a sequential program whose position is pc; the    *)
(* schema liveness goroutine has its own position gpc.  Calls into code    *)
(* outside the command (KMS setup, listener binding, database, controller  *)
(* and worker subsystems) return a nondeterministically chosen outcome.    *)
(*                                                                         *)
(* Two further parts have their own specifications: the enrollment of a    *)
(* worker over several starts (SpecEnroll) and the controller's health     *)
(* service (SpecService).                                                  *)
(***************************************************************************)
EXTENDS Integers, Sequences, FiniteSets, TLC

(***************************************************************************)
(* Bounds of the model.                                                    *)
(***************************************************************************)
\* longest listener list of a configuration file
MaxListeners == 3
\* longest worker upstream ("controllers") list of a configuration file
MaxUpstreams == 2
\* largest schema version of binary and database
MaxSchemaVersion == 2
\* most root keys in the database
MaxRootKeys == 2
\* most schema managers the process creates (the first and the re-attached ones)
MaxManagers == 3
\* most signals (SIGHUP, SIGUSR2) the environment sends
MaxSignals == 2

VARIABLES
    configFile,     \* content of the configuration file on disk
    flagConfig,     \* c.flagConfig
    flagLogLevel,   \* c.flagLogLevel
    Config,         \* c.Config
    configWrapper,  \* c.configWrapper: "nil", "set" (Init failed), "init", "finalized"
    finalizeCount,  \* number of configWrapper.Finalize calls
    Logger,         \* level of c.Logger
    RootKms,        \* c.RootKms != nil
    WorkerAuthKms,  \* c.WorkerAuthKms != nil
    clusterAddr,    \* Run's local clusterAddr
    foundApi,       \* Run's local foundApi
    foundProxy,     \* Run's local foundProxy
    listenersBound, \* SetupListeners has bound the listeners
    pidFile,        \* the PID file exists on disk
    ShutdownFuncs,  \* c.ShutdownFuncs
    deferred,       \* Run's stack of deferred calls
    pc,             \* position of the main goroutine in Run
    exitCode,       \* Run's return value, -1 while none is set
    uiError,        \* the message of the c.UI.Error call that precedes a return 1
    log,            \* milestones of the main goroutine, in order
    ctxDone,        \* c.Context is cancelled
    cancelledBy,    \* who cancelled c.Context first: "", "signal", "schemaGuard", "defer"
    database,       \* c.Database: "nil" or "connected"
    SchemaManager,  \* c.SchemaManager: 0 for nil, else the number of the manager
    managers,       \* number of schema managers created so far
    locks,          \* the managers that hold the shared advisory lock
    ckState,        \* connectSchemaManager's local ckState
    rks,            \* verifyKmsSetup's local rks
    controller,     \* c.controller: "nil", "new", "started", "shutdown"
    worker,         \* c.worker: "nil", "new", "started", "shutdown"
    gpc,            \* position of the ensureManagerConnection goroutine
    failedPings,    \* failed pings (context alive) since the last successful ping
    lastReattach,   \* the latest re-attach: "none", "ok", "NewManager failed", "SharedLock failed"
    guardCancelled, \* ensureManagerConnection has called c.CancelFn
    sighupCh,       \* a message waits in c.SighupCh
    sigusr2Ch,      \* a message waits in c.SigUSR2Ch
    signalBudget,   \* SIGHUPs and SIGUSR2s the environment may still send
    ReloadFuncs,    \* c.ReloadFuncs: key -> sequence of callbacks, 0 for a nil callback
    reloadCount,    \* number of SIGHUPs handled
    lastReload,     \* what the latest SIGHUP handling did
    enrollState,    \* the worker's enrollment state, "Stopped" while the worker is not running
    credentials,    \* a valid signed certificate is stored under auth_storage_path
    activationToken,\* controller_generated_activation_token of the configuration
    liveToken,      \* the activation token the running worker holds
    tokenConsumed,  \* the controller has consumed the activation token
    tokenReads,     \* number of times a worker resolved the activation token
    tokenPresented, \* number of times a worker presented the activation token
    workerStarts,   \* number of worker starts
    replyWithServiceUnavailable, \* health.Service.replyWithServiceUnavailable
    inFlight,       \* GetHealth calls that have read the field and not yet replied
    replies         \* the replies of the GetHealth calls, in order

cfgVars == <<configFile, flagConfig, flagLogLevel, Config>>
kmsVars == <<configWrapper, finalizeCount, RootKms, WorkerAuthKms>>
lsnVars == <<clusterAddr, foundApi, foundProxy, listenersBound>>
runVars == <<pidFile, ShutdownFuncs, deferred, pc, exitCode, uiError, log>>
ctxVars == <<ctxDone, cancelledBy>>
dbVars == <<database, SchemaManager, managers, locks, ckState, rks>>
subVars == <<controller, worker>>
guardVars == <<gpc, failedPings, lastReattach, guardCancelled>>
sigVars == <<sighupCh, sigusr2Ch, signalBudget, ReloadFuncs, reloadCount, lastReload>>
enrVars == <<enrollState, credentials, activationToken, liveToken, tokenConsumed,
             tokenReads, tokenPresented, workerStarts>>
healthVars == <<replyWithServiceUnavailable, inFlight, replies>>
cmdVars == <<cfgVars, kmsVars, lsnVars, runVars, Logger, ctxVars, dbVars, subVars, guardVars,
             sigVars>>
vars == <<cmdVars, enrVars, healthVars>>

(***************************************************************************)
(* Addresses.  An address string is the sequence of its tokens, ":" being  *)
(* a token of its own: "10.0.0.1:9201" is <<"10.0.0.1", ":", "9201">>,     *)
(* "10.0.0.1" is <<"10.0.0.1">> and "" is <<>>.                            *)
(***************************************************************************)
EmptyAddr == <<>>

WithPort(h) == <<h, ":", "9201">>

\* a string with two colons outside brackets
TooManyColons(h) == <<h, ":", "9201", ":", "1">>

\* Run's default for a cluster listener without address
DefaultClusterAddr == WithPort("127.0.0.1")

\* the hosts that net.ParseIP parses
IPLiterals == {"127.0.0.1", "10.0.0.1", "10.0.0.2", "10.0.0.3", "10.0.0.9", "0.0.0.0", "224.0.0.1", "::"}

\* an IPv6 host is written in brackets where a port follows; net.SplitHostPort drops them
Unbracket(h) == IF h = "[::]" THEN "::" ELSE h

Colons(a) == Cardinality({i \in DOMAIN a : a[i] = ":"})

\* net.SplitHostPort: the host, and the error ("" for nil)
SplitHostPort(a) ==
    IF Colons(a) = 0 THEN [host |-> "", err |-> "missing port in address"]
    ELSE IF Colons(a) > 1 THEN [host |-> "", err |-> "too many colons in address"]
    ELSE [host |-> IF a[1] = ":" THEN "" ELSE Unbracket(a[1]), err |-> ""]

\* the whole string of an address without colon, used as host when the port is missing
WholeString(a) == IF Len(a) = 0 THEN "" ELSE a[1]

\* net.ParseIP(host) != nil
ParseIP(host) == host \in IPLiterals

IsUnspecified(host) == host \in {"0.0.0.0", "::"}

IsMulticast(host) == host = "224.0.0.1"

(***************************************************************************)
(* Log levels are strings whose case and surrounding spaces matter: such a *)
(* string is the sequence of its characters.                               *)
(***************************************************************************)
Lower == <<"a", "b", "c", "d", "e", "f", "g", "h", "i", "j", "k", "l", "m",
           "n", "o", "p", "q", "r", "s", "t", "u", "v", "w", "x", "y", "z">>

Upper == <<"A", "B", "C", "D", "E", "F", "G", "H", "I", "J", "K", "L", "M",
           "N", "O", "P", "Q", "R", "S", "T", "U", "V", "W", "X", "Y", "Z">>

\* strings.ToLower
ToLower(str) ==
    [i \in DOMAIN str |->
        IF \E j \in DOMAIN Upper : Upper[j] = str[i]
        THEN Lower[CHOOSE j \in DOMAIN Upper : Upper[j] = str[i]]
        ELSE str[i]]

\* strings.TrimSpace
RECURSIVE TrimLeft(_)
TrimLeft(str) ==
    IF Len(str) > 0 /\ Head(str) = " " THEN TrimLeft(Tail(str)) ELSE str

RECURSIVE TrimRight(_)
TrimRight(str) ==
    IF Len(str) > 0 /\ str[Len(str)] = " " THEN TrimRight(SubSeq(str, 1, Len(str) - 1))
    ELSE str

TrimSpace(str) == TrimRight(TrimLeft(str))

EmptyString == <<>>

(***************************************************************************)
(* Configuration files.                                                    *)
(***************************************************************************)
ListenerPurposes == {"api", "cluster", "proxy"}

NilConfig ==
    [ Loaded            |-> FALSE,
      HasController     |-> FALSE,
      ControllerName    |-> "",
      PublicClusterAddr |-> EmptyAddr,
      DatabaseUrl       |-> "",
      HasWorker         |-> FALSE,
      WorkerName        |-> "",
      WorkerControllers |-> <<>>,
      Listeners         |-> <<>>,
      KmsPurposes       |-> {},
      LogLevel          |-> EmptyString,
      PidFile           |-> "" ]

\* all sequences over S of length at most n
RECURSIVE SeqsUpTo(_, _)
SeqsUpTo(S, n) ==
    IF n = 0 THEN {<<>>}
    ELSE LET shorter == SeqsUpTo(S, n - 1)
         IN  shorter \cup {Append(s, x) : s \in {t \in shorter : Len(t) = n - 1}, x \in S}

\* a listener block with tls_disable = true
Listener(purpose, address) ==
    [Purpose |-> purpose, Address |-> address, TLSDisable |-> TRUE]

\* a listener block with TLS
TLSListener(purpose, address) ==
    [Purpose |-> purpose, Address |-> address, TLSDisable |-> FALSE]

\* a configuration that passes every check of Run, for the given roles
GoodConfig(hasController, hasWorker) ==
    [ Loaded            |-> FALSE,
      HasController     |-> hasController,
      ControllerName    |-> IF hasController THEN "c1" ELSE "",
      PublicClusterAddr |-> EmptyAddr,
      DatabaseUrl       |-> IF hasController THEN "postgresql://db" ELSE "",
      HasWorker         |-> hasWorker,
      WorkerName        |-> IF hasWorker THEN "w1" ELSE "",
      WorkerControllers |-> IF hasWorker /\ ~hasController
                            THEN <<WithPort("10.0.0.1")>> ELSE <<>>,
      Listeners         |-> (IF hasController
                             THEN <<TLSListener(<<"api">>, EmptyAddr),
                                    Listener(<<"cluster">>, WithPort("10.0.0.1"))>>
                             ELSE <<>>)
                            \o (IF hasWorker
                                THEN <<Listener(<<"proxy">>, EmptyAddr)>> ELSE <<>>),
      KmsPurposes       |-> {"root", "worker-auth"},
      LogLevel          |-> EmptyString,
      PidFile           |-> "boundary.pid" ]

Roles == {<<TRUE, FALSE>>, <<FALSE, TRUE>>, <<TRUE, TRUE>>}

\* the listener blocks the listener lists are built from
ListenerBlocks ==
    {Listener(<<>>, EmptyAddr),
     Listener(<<"api">>, EmptyAddr),
     Listener(<<"proxy">>, EmptyAddr),
     Listener(<<"cluster">>, EmptyAddr),
     Listener(<<"cluster">>, WithPort("10.0.0.1")),
     Listener(<<"metrics">>, EmptyAddr),
     Listener(<<"api", "cluster">>, EmptyAddr)}

\* configuration files that vary the listeners and the KMS blocks
ListenerConfigs ==
    {[GoodConfig(r[1], r[2]) EXCEPT !.Listeners = ls, !.KmsPurposes = k] :
        r \in Roles,
        ls \in SeqsUpTo(ListenerBlocks, MaxListeners),
        k \in {{"root", "worker-auth"}, {"root"}, {"worker-auth"}, {"worker-auth-storage"}}}

\* the addresses the upstream lists are built from
UpstreamAddrs ==
    {EmptyAddr, WithPort("10.0.0.1"), <<"10.0.0.1">>, WithPort("10.0.0.2"),
     WithPort("10.0.0.9"), WithPort("boundary.example"), <<"boundary.example">>,
     WithPort("0.0.0.0"), WithPort("224.0.0.1"), TooManyColons("10.0.0.1")}

\* listener lists that pass the listener checks, with different cluster addresses
ClusterVariants ==
    {<<Listener(<<"api">>, EmptyAddr), Listener(<<"cluster">>, a),
       Listener(<<"proxy">>, EmptyAddr)>> :
        a \in {EmptyAddr, WithPort("10.0.0.1"), WithPort("0.0.0.0")}}

\* the addresses of the cluster listeners of ClusterConfigs
ClusterAddrs ==
    {EmptyAddr, WithPort("10.0.0.1"), WithPort("0.0.0.0"), <<"0.0.0.0">>, WithPort("[::]"),
     <<"[::]">>, TooManyColons("0.0.0.0")}

\* controller configuration files with two cluster listeners
ClusterConfigs ==
    {[GoodConfig(TRUE, FALSE) EXCEPT
         !.Listeners = <<Listener(<<"api">>, EmptyAddr), Listener(<<"cluster">>, a),
                         Listener(<<"cluster">>, b)>>,
         !.PublicClusterAddr = pub] :
        a \in ClusterAddrs, b \in ClusterAddrs, pub \in {EmptyAddr, WithPort("10.0.0.9")}}

\* configuration files that vary the worker's upstream list
UpstreamConfigs ==
    {[GoodConfig(r[1], r[2]) EXCEPT !.Listeners = ls, !.WorkerControllers = us,
                                    !.PublicClusterAddr = pub] :
        r \in {<<FALSE, TRUE>>, <<TRUE, TRUE>>},
        ls \in ClusterVariants,
        us \in SeqsUpTo(UpstreamAddrs, MaxUpstreams),
        pub \in {EmptyAddr, WithPort("10.0.0.9")}}

(***************************************************************************)
(* Run, lines 154-167: the KMS purposes that must have resolved.           *)
(***************************************************************************)
ErrNoRootKms == "Root KMS not found after parsing KMS blocks"
ErrNoWorkerAuthKms == "Worker Auth KMS not found after parsing KMS blocks"

\* a KmsCheck that asks for the worker-auth KMS only when a worker is configured
KmsCheck_WorkerAuthForWorkerOnly(cfg, rootKms, workerAuthKms) ==
    IF cfg.HasController /\ ~rootKms THEN ErrNoRootKms
    ELSE IF cfg.HasWorker /\ ~workerAuthKms THEN ErrNoWorkerAuthKms
    ELSE ""

KmsCheck(cfg, rootKms, workerAuthKms) ==
    IF cfg.HasController /\ ~rootKms THEN ErrNoRootKms
    ELSE IF ~workerAuthKms THEN ErrNoWorkerAuthKms
    ELSE ""

(***************************************************************************)
(* Run, lines 186-216: the loop over the configured listeners.             *)
(***************************************************************************)
ErrNoPurpose == "Listener specified without a purpose"
ErrUnknownPurpose == "Unknown listener purpose"
ErrManyPurposes == "Specifying a listener with more than one purpose is not supported"

ListenerLoopStart == [clusterAddr |-> EmptyAddr, foundApi |-> FALSE, foundProxy |-> FALSE, err |-> ""]

\* a ListenerLoop that skips a listener of unknown purpose
RECURSIVE ListenerLoop_SkipUnknown(_, _, _)
ListenerLoop_SkipUnknown(lns, i, st) ==
    IF i > Len(lns) THEN st
    ELSE LET lnConfig == lns[i]
             purpose  == lnConfig.Purpose[1]
         IN  IF Len(lnConfig.Purpose) = 0 THEN [st EXCEPT !.err = ErrNoPurpose]
             ELSE IF Len(lnConfig.Purpose) = 1 THEN
                  ListenerLoop_SkipUnknown(lns, i + 1,
                      IF purpose = "cluster" THEN
                          [st EXCEPT !.clusterAddr =
                              IF lnConfig.Address = EmptyAddr THEN DefaultClusterAddr
                              ELSE lnConfig.Address]
                      ELSE IF purpose = "api" THEN [st EXCEPT !.foundApi = TRUE]
                      ELSE IF purpose = "proxy" THEN [st EXCEPT !.foundProxy = TRUE]
                      ELSE st)
             ELSE [st EXCEPT !.err = ErrManyPurposes]

RECURSIVE ListenerLoop(_, _, _)
ListenerLoop(lns, i, st) ==
    IF i > Len(lns) THEN st
    ELSE LET lnConfig == lns[i]
             purpose  == lnConfig.Purpose[1]
         IN  IF Len(lnConfig.Purpose) = 0 THEN [st EXCEPT !.err = ErrNoPurpose]
             ELSE IF Len(lnConfig.Purpose) = 1 THEN
                  IF purpose = "cluster" THEN
                      ListenerLoop(lns, i + 1,
                          [st EXCEPT !.clusterAddr =
                              IF lnConfig.Address = EmptyAddr THEN DefaultClusterAddr
                              ELSE lnConfig.Address])
                  ELSE IF purpose = "api" THEN
                      ListenerLoop(lns, i + 1, [st EXCEPT !.foundApi = TRUE])
                  ELSE IF purpose = "proxy" THEN
                      ListenerLoop(lns, i + 1, [st EXCEPT !.foundProxy = TRUE])
                  ELSE [st EXCEPT !.err = ErrUnknownPurpose]
             ELSE [st EXCEPT !.err = ErrManyPurposes]

(***************************************************************************)
(* Run, lines 217-226: what a controller needs of the listeners.           *)
(***************************************************************************)
ErrNoApiListener == "Config activates controller but no listener with api purpose found"
ErrNoClusterListener == "Config activates controller but no listener with cluster purpose found"

\* a ControllerListenerCheck without the cluster listener check
ControllerListenerCheck_NoClusterCheck(cfg, st) ==
    IF ~cfg.HasController THEN ""
    ELSE IF ~st.foundApi THEN ErrNoApiListener
    ELSE ""

\* a ControllerListenerCheck without the api listener check
ControllerListenerCheck_NoApiCheck(cfg, st) ==
    IF ~cfg.HasController THEN ""
    ELSE IF st.clusterAddr = EmptyAddr THEN ErrNoClusterListener
    ELSE ""

ControllerListenerCheck(cfg, st) ==
    IF ~cfg.HasController THEN ""
    ELSE IF ~st.foundApi THEN ErrNoApiListener
    ELSE IF st.clusterAddr = EmptyAddr THEN ErrNoClusterListener
    ELSE ""

(***************************************************************************)
(* Run, lines 232-265: the worker's upstream list in combined mode.        *)
(* The result is the error ("" for none), the list and the cluster address *)
(* as the switch leaves them.                                              *)
(***************************************************************************)
ErrNoProxyListener == "Config activates worker but no listener with proxy purpose found"
ErrCombinedUpstreams == "When running a combined controller and worker, it's invalid to specify a controllers key in the worker block with any value other than the controller cluster address/port when using IPs rather than DNS names"

\* lines 247-259: the single entry is taken for a domain name
IsDomainName(a) ==
    LET split == SplitHostPort(a)
        err   == IF split.err = "missing port in address" THEN "" ELSE split.err
        host  == IF split.err = "missing port in address" THEN WholeString(a) ELSE split.host
    IN  err = "" /\ ~ParseIP(host)

\* a CombinedUpstreams that judges every entry of a list of any length
CombinedUpstreams_AnyLength(controllers, cluster, publicClusterAddr) ==
    IF Len(controllers) = 0 THEN
        LET addr == IF publicClusterAddr # EmptyAddr THEN publicClusterAddr ELSE cluster
        IN  [err |-> "", controllers |-> <<addr>>, clusterAddr |-> addr]
    ELSE IF \A i \in DOMAIN controllers :
               \/ controllers[i] = cluster
               \/ publicClusterAddr # EmptyAddr /\ controllers[i] = publicClusterAddr
               \/ IsDomainName(controllers[i])
        THEN [err |-> "", controllers |-> controllers, clusterAddr |-> cluster]
        ELSE [err |-> ErrCombinedUpstreams, controllers |-> controllers, clusterAddr |-> cluster]

CombinedUpstreams(controllers, cluster, publicClusterAddr) ==
    IF Len(controllers) = 0 THEN
        LET addr == IF publicClusterAddr # EmptyAddr THEN publicClusterAddr ELSE cluster
        IN  [err |-> "", controllers |-> <<addr>>, clusterAddr |-> addr]
    ELSE IF Len(controllers) = 1 THEN
        IF \/ controllers[1] = cluster
           \/ publicClusterAddr # EmptyAddr /\ controllers[1] = publicClusterAddr
           \/ IsDomainName(controllers[1])
        THEN [err |-> "", controllers |-> controllers, clusterAddr |-> cluster]
        ELSE [err |-> ErrCombinedUpstreams, controllers |-> controllers, clusterAddr |-> cluster]
    ELSE [err |-> ErrCombinedUpstreams, controllers |-> controllers, clusterAddr |-> cluster]

(***************************************************************************)
(* Run, lines 266-290: every upstream address is well formed and neither   *)
(* unspecified nor multicast.                                              *)
(***************************************************************************)
ErrInvalidControllerAddr == "Invalid controller address"
ErrUnspecifiedControllerAddr == "Controller address is invalid: cannot be an unspecified address"
ErrMulticastControllerAddr == "Controller address is invalid: cannot be a multicast address"

RECURSIVE ControllerAddrLoop(_, _)
ControllerAddrLoop(controllers, i) ==
    IF i > Len(controllers) THEN ""
    ELSE LET addr  == controllers[i]
             split == SplitHostPort(addr)
             host  == IF split.err = "missing port in address"
                      THEN WholeString(addr) ELSE split.host
         IN  IF split.err # "" /\ split.err # "missing port in address"
             THEN ErrInvalidControllerAddr
             ELSE IF ParseIP(host) /\ IsUnspecified(host) THEN ErrUnspecifiedControllerAddr
             ELSE IF ParseIP(host) /\ IsMulticast(host) THEN ErrMulticastControllerAddr
             ELSE ControllerAddrLoop(controllers, i + 1)

(***************************************************************************)
(* Run, lines 305-328: a cluster listener on an unspecified address needs  *)
(* controller.public_cluster_addr.                                         *)
(***************************************************************************)
ErrInvalidClusterAddr == "Invalid cluster listener address"
ErrUnspecifiedCluster == "When cluster listener has an unspecified address, public_cluster_addr must be set"

\* a ClusterListenerLoop that stops after the first cluster listener
ClusterListenerLoop_FirstOnly(lns, i, publicClusterAddr) ==
    LET cluster == {j \in DOMAIN lns : \E k \in DOMAIN lns[j].Purpose :
                                          lns[j].Purpose[k] = "cluster"}
        first   == CHOOSE j \in cluster : \A k \in cluster : j <= k
        split   == SplitHostPort(lns[first].Address)
        host    == IF split.err = "missing port in address"
                   THEN WholeString(lns[first].Address) ELSE split.host
    IN  IF cluster = {} THEN ""
        ELSE IF split.err # "" /\ split.err # "missing port in address"
        THEN ErrInvalidClusterAddr
        ELSE IF ParseIP(host) /\ IsUnspecified(host) /\ publicClusterAddr = EmptyAddr
        THEN ErrUnspecifiedCluster
        ELSE ""

RECURSIVE ClusterListenerLoop(_, _, _)
ClusterListenerLoop(lns, i, publicClusterAddr) ==
    IF i > Len(lns) THEN ""
    ELSE LET ln    == lns[i]
             split == SplitHostPort(ln.Address)
             host  == IF split.err = "missing port in address"
                      THEN WholeString(ln.Address) ELSE split.host
         IN  IF \A j \in DOMAIN ln.Purpose : ln.Purpose[j] # "cluster"
             THEN ClusterListenerLoop(lns, i + 1, publicClusterAddr)
             ELSE IF split.err # "" /\ split.err # "missing port in address"
             THEN ErrInvalidClusterAddr
             ELSE IF ParseIP(host) /\ IsUnspecified(host) /\ publicClusterAddr = EmptyAddr
             THEN ErrUnspecifiedCluster
             ELSE ClusterListenerLoop(lns, i + 1, publicClusterAddr)

(***************************************************************************)
(* Returning from Run: the return value is set and the deferred calls run. *)
(***************************************************************************)
Return(code, msg) ==
    /\ pc' = "Defers"
    /\ exitCode' = code
    /\ uiError' = msg

(***************************************************************************)
(* Run lines 126-140 with ParseFlagsAndConfig, lines 398-450.              *)
(***************************************************************************)
ErrFlags == "flag parse error"
ErrWrapper == "config kms wrapper error"
ErrWrapperInit == "Could not initialize kms"
ErrNoConfigFlag == "Must specify a config file using -config"
ErrParseConfig == "Error parsing config"
ErrNoRole == "Neither worker nor controller specified in configuration file."
ErrControllerName == "Controller has no name set. It must be the unique name of this instance."
ErrWorkerName == "Worker has no name set. It must be the unique name of this instance."

\* ParseFlagsAndConfig lines 436-447: 0, or the message of the failed check
RoleCheck(cfg) ==
    IF ~cfg.HasController /\ ~cfg.HasWorker THEN ErrNoRole
    ELSE IF cfg.HasController /\ cfg.ControllerName = "" THEN ErrControllerName
    ELSE IF cfg.HasWorker /\ cfg.WorkerName = "" THEN ErrWorkerName
    ELSE ""

\* config.LoadFile
LoadFile(file) == [file EXCEPT !.Loaded = TRUE]

\* a ParseFlagsAndConfig that loads the configuration before it initialises the wrapper
ParseLog_LoadFirst(wrapperInit, loaded) ==
    (IF loaded THEN <<"ConfigLoaded">> ELSE <<>>)
    \o (IF wrapperInit THEN <<"ConfigWrapperInit">> ELSE <<>>)

\* lines 417-434: wrapper.Init (line 419) comes before config.LoadFile (line 430)
ParseLog(wrapperInit, loaded) ==
    (IF wrapperInit THEN <<"ConfigWrapperInit">> ELSE <<>>)
    \o (IF loaded THEN <<"ConfigLoaded">> ELSE <<>>)

ParseFlagsAndConfig ==
    /\ pc = "ParseFlagsAndConfig"
    /\ \E flagsOk \in BOOLEAN, path \in {"", "boundary.hcl"}, wrapperOk \in BOOLEAN,
          initOk \in BOOLEAN, loadOk \in BOOLEAN :
         LET hasWrapper == flagsOk /\ wrapperOk /\ "config" \in configFile.KmsPurposes
             err == IF ~flagsOk THEN ErrFlags
                    ELSE IF ~wrapperOk THEN ErrWrapper
                    ELSE IF hasWrapper /\ ~initOk THEN ErrWrapperInit
                    ELSE IF path = "" THEN ErrNoConfigFlag
                    ELSE IF ~loadOk THEN ErrParseConfig
                    ELSE RoleCheck(LoadFile(configFile))
             loaded == flagsOk /\ wrapperOk /\ (hasWrapper => initOk) /\ path # "" /\ loadOk
         IN  /\ flagConfig' = IF flagsOk THEN path ELSE ""
             /\ configWrapper' = IF ~hasWrapper THEN "nil"
                                 ELSE IF initOk THEN "init" ELSE "set"
             /\ Config' = IF loaded THEN LoadFile(configFile) ELSE Config
             /\ log' = log \o ParseLog(hasWrapper /\ initOk, loaded)
             /\ IF err # ""
                THEN /\ deferred' = <<"CancelFn">>
                     /\ Return(1, err)
                ELSE /\ deferred' = IF hasWrapper THEN <<"CancelFn", "configWrapper.Finalize">>
                                    ELSE <<"CancelFn">>
                     /\ pc' = "SetupLogging"
                     /\ UNCHANGED <<exitCode, uiError>>
    /\ UNCHANGED <<configFile, flagLogLevel, finalizeCount, RootKms, WorkerAuthKms,
                   lsnVars, pidFile, ShutdownFuncs, Logger>>
    /\ UNCHANGED <<ctxVars, dbVars, subVars, guardVars>>
    /\ UNCHANGED sigVars
    /\ UNCHANGED <<enrVars, healthVars>>

(***************************************************************************)
(* Run lines 142-152: logging and metrics.  The level is the flag's, else  *)
(* the configuration's, else info.                                         *)
(***************************************************************************)
ErrLogging == "logging setup error"
ErrMetrics == "metrics setup error"

\* a LevelOf that compares the trimmed string as it is written
LevelOf_CaseSensitive(logLevel) ==
    LET configLogLevel == TrimSpace(logLevel)
    IN  CASE configLogLevel = <<"t", "r", "a", "c", "e">> -> "trace"
          [] configLogLevel = <<"d", "e", "b", "u", "g">> -> "debug"
          [] configLogLevel \in {<<"n", "o", "t", "i", "c", "e">>, <<"i", "n", "f", "o">>,
                                 EmptyString} -> "info"
          [] configLogLevel \in {<<"w", "a", "r", "n">>,
                                 <<"w", "a", "r", "n", "i", "n", "g">>} -> "warn"
          [] configLogLevel \in {<<"e", "r", "r">>, <<"e", "r", "r", "o", "r">>} -> "error"
          [] OTHER -> "unknown"

\* WaitForInterrupt lines 548-563: the level of a log_level string, "unknown" for the default case
LevelOf(logLevel) ==
    LET configLogLevel == ToLower(TrimSpace(logLevel))
    IN  CASE configLogLevel = <<"t", "r", "a", "c", "e">> -> "trace"
          [] configLogLevel = <<"d", "e", "b", "u", "g">> -> "debug"
          [] configLogLevel \in {<<"n", "o", "t", "i", "c", "e">>, <<"i", "n", "f", "o">>,
                                 EmptyString} -> "info"
          [] configLogLevel \in {<<"w", "a", "r", "n">>,
                                 <<"w", "a", "r", "n", "i", "n", "g">>} -> "warn"
          [] configLogLevel \in {<<"e", "r", "r">>, <<"e", "r", "r", "o", "r">>} -> "error"
          [] OTHER -> "unknown"

\* base.Server.SetupLogging: flag > config > default
SetupLoggingLevel(flag, conf) ==
    IF flag # EmptyString THEN LevelOf(flag)
    ELSE IF conf # EmptyString THEN LevelOf(conf)
    ELSE "info"

SetupLogging ==
    /\ pc = "SetupLogging"
    /\ \E ok \in BOOLEAN :
         LET level == SetupLoggingLevel(flagLogLevel, Config.LogLevel)
         IN  IF ok /\ level # "unknown"
             THEN /\ Logger' = level
                  /\ pc' = "SetupMetrics"
                  /\ UNCHANGED <<exitCode, uiError>>
             ELSE /\ Return(1, ErrLogging)
                  /\ UNCHANGED Logger
    /\ UNCHANGED <<cfgVars, kmsVars, lsnVars, pidFile, ShutdownFuncs, deferred, log>>
    /\ UNCHANGED <<ctxVars, dbVars, subVars, guardVars>>
    /\ UNCHANGED sigVars
    /\ UNCHANGED <<enrVars, healthVars>>

SetupMetrics ==
    /\ pc = "SetupMetrics"
    /\ \E ok \in BOOLEAN :
         IF ok THEN pc' = "SetupKMSes" /\ UNCHANGED <<exitCode, uiError>>
         ELSE Return(1, ErrMetrics)
    /\ UNCHANGED <<cfgVars, kmsVars, lsnVars, pidFile, ShutdownFuncs, deferred, log, Logger>>
    /\ UNCHANGED <<ctxVars, dbVars, subVars, guardVars>>
    /\ UNCHANGED sigVars
    /\ UNCHANGED <<enrVars, healthVars>>

(***************************************************************************)
(* Run lines 154-167: the KMS blocks are set up and the needed purposes    *)
(* must have resolved.                                                     *)
(***************************************************************************)
ErrKms == "kms setup error"

\* base.Server.SetupKMSes: the wrapper of a purpose is set when a block declares it
ResolveKms(cfg, purpose) == purpose \in cfg.KmsPurposes

SetupKMSes ==
    /\ pc = "SetupKMSes"
    /\ \E ok \in BOOLEAN :
         LET root == ok /\ ResolveKms(Config, "root")
             auth == ok /\ ResolveKms(Config, "worker-auth")
             err  == IF ~ok THEN ErrKms ELSE KmsCheck(Config, root, auth)
         IN  /\ RootKms' = root
             /\ WorkerAuthKms' = auth
             /\ log' = IF ok THEN Append(log, "KMSInit") ELSE log
             /\ IF err = "" THEN pc' = "ListenerChecks" /\ UNCHANGED <<exitCode, uiError>>
                ELSE Return(1, err)
    /\ UNCHANGED <<cfgVars, configWrapper, finalizeCount, lsnVars, pidFile, ShutdownFuncs,
                   deferred, Logger>>
    /\ UNCHANGED <<ctxVars, dbVars, subVars, guardVars>>
    /\ UNCHANGED sigVars
    /\ UNCHANGED <<enrVars, healthVars>>

(***************************************************************************)
(* Run lines 186-226: the listener checks.                                 *)
(***************************************************************************)
ListenerChecks ==
    /\ pc = "ListenerChecks"
    /\ LET st  == ListenerLoop(Config.Listeners, 1, ListenerLoopStart)
           err == IF st.err # "" THEN st.err ELSE ControllerListenerCheck(Config, st)
       IN  /\ clusterAddr' = st.clusterAddr
           /\ foundApi' = st.foundApi
           /\ foundProxy' = st.foundProxy
           /\ IF err = "" THEN pc' = "WorkerChecks" /\ UNCHANGED <<exitCode, uiError>>
              ELSE Return(1, err)
    /\ UNCHANGED <<cfgVars, kmsVars, listenersBound, pidFile, ShutdownFuncs, deferred, log,
                   Logger>>
    /\ UNCHANGED <<ctxVars, dbVars, subVars, guardVars>>
    /\ UNCHANGED sigVars
    /\ UNCHANGED <<enrVars, healthVars>>

(***************************************************************************)
(* Run lines 227-291: the worker checks.  In combined mode an empty        *)
(* upstream list is replaced by the cluster address (line 238).            *)
(***************************************************************************)
WorkerChecks ==
    /\ pc = "WorkerChecks"
    /\ LET combined == IF Config.HasWorker /\ foundProxy /\ Config.HasController
                       THEN CombinedUpstreams(Config.WorkerControllers, clusterAddr,
                                              Config.PublicClusterAddr)
                       ELSE [err |-> "", controllers |-> Config.WorkerControllers,
                             clusterAddr |-> clusterAddr]
           err == IF ~Config.HasWorker THEN ""
                  ELSE IF ~foundProxy THEN ErrNoProxyListener
                  ELSE IF combined.err # "" THEN combined.err
                  ELSE ControllerAddrLoop(combined.controllers, 1)
       IN  /\ Config' = [Config EXCEPT !.WorkerControllers = combined.controllers]
           /\ clusterAddr' = combined.clusterAddr
           /\ IF err = "" THEN pc' = "SetupListeners" /\ UNCHANGED <<exitCode, uiError>>
              ELSE Return(1, err)
    /\ UNCHANGED <<configFile, flagConfig, flagLogLevel, kmsVars, foundApi, foundProxy,
                   listenersBound, pidFile, ShutdownFuncs, deferred, log, Logger>>
    /\ UNCHANGED <<ctxVars, dbVars, subVars, guardVars>>
    /\ UNCHANGED sigVars
    /\ UNCHANGED <<enrVars, healthVars>>

(***************************************************************************)
(* Run lines 292-295: the listeners are bound.                             *)
(***************************************************************************)
ErrBind == "listener bind error"

ListenerKey == <<"listener|", "tcp">>

\* base.Server.SetupListeners: the reload callback of every bound listener is registered
\* under the key of its type; a listener without TLS has a nil callback
ListenerReloadFuncs(lns) ==
    IF Len(lns) = 0 THEN <<>>
    ELSE [k \in {ListenerKey} |-> [i \in DOMAIN lns |-> IF lns[i].TLSDisable THEN 0 ELSE i]]

\* the callbacks of new are appended to those registered under the same key
RegisterReloadFuncs(funcs, new) ==
    [k \in DOMAIN funcs \cup DOMAIN new |->
        (IF k \in DOMAIN funcs THEN funcs[k] ELSE <<>>)
        \o (IF k \in DOMAIN new THEN new[k] ELSE <<>>)]

SetupListeners ==
    /\ pc = "SetupListeners"
    /\ \E ok \in BOOLEAN :
         IF ok
         THEN /\ listenersBound' = TRUE
              /\ ReloadFuncs' = RegisterReloadFuncs(ReloadFuncs,
                                                    ListenerReloadFuncs(Config.Listeners))
              /\ log' = Append(log, "ListenersBound")
              /\ pc' = "PublicAddrs"
              /\ UNCHANGED <<exitCode, uiError>>
         ELSE /\ Return(1, ErrBind)
              /\ UNCHANGED <<listenersBound, ReloadFuncs, log>>
    /\ UNCHANGED <<cfgVars, kmsVars, clusterAddr, foundApi, foundProxy, pidFile,
                   ShutdownFuncs, deferred, Logger>>
    /\ UNCHANGED <<ctxVars, dbVars, subVars, guardVars>>
    /\ UNCHANGED <<sighupCh, sigusr2Ch, signalBudget, reloadCount, lastReload>>
    /\ UNCHANGED <<enrVars, healthVars>>

(***************************************************************************)
(* Run lines 297-336: the public addresses of worker and controller.       *)
(***************************************************************************)
ErrPublicAddr == "public address setup error"

PublicAddrs ==
    /\ pc = "PublicAddrs"
    /\ \E workerOk \in BOOLEAN, controllerOk \in BOOLEAN :
         LET err == IF Config.HasWorker /\ ~workerOk THEN ErrPublicAddr
                    ELSE IF ~Config.HasController THEN ""
                    ELSE IF ClusterListenerLoop(Config.Listeners, 1,
                                                Config.PublicClusterAddr) # ""
                    THEN ClusterListenerLoop(Config.Listeners, 1, Config.PublicClusterAddr)
                    ELSE IF ~controllerOk THEN ErrPublicAddr
                    ELSE ""
         IN  IF err = "" THEN pc' = "StorePidFile" /\ UNCHANGED <<exitCode, uiError>>
             ELSE Return(1, err)
    /\ UNCHANGED <<cfgVars, kmsVars, lsnVars, pidFile, ShutdownFuncs, deferred, log, Logger>>
    /\ UNCHANGED <<ctxVars, dbVars, subVars, guardVars>>
    /\ UNCHANGED sigVars
    /\ UNCHANGED <<enrVars, healthVars>>

(***************************************************************************)
(* Run lines 338-342: the PID file is written; removing it is registered   *)
(* as a shutdown function.                                                 *)
(***************************************************************************)
ErrPidFile == "Error storing PID"

\* the shutdown functions: removing the PID file, releasing the shared lock of manager sm
RemovePidFileFunc == [fn |-> "RemovePidFile", sm |-> 0]

UnlockFunc(sm) == [fn |-> "SharedUnlock", sm |-> sm]

StorePidFile ==
    /\ pc = "StorePidFile"
    /\ \E ok \in BOOLEAN :
         IF ~ok THEN /\ Return(1, ErrPidFile)
                     /\ UNCHANGED <<pidFile, ShutdownFuncs, log>>
         ELSE /\ pidFile' = (Config.PidFile # "")
              /\ ShutdownFuncs' = IF Config.PidFile # ""
                                  THEN Append(ShutdownFuncs, RemovePidFileFunc)
                                  ELSE ShutdownFuncs
              /\ log' = IF Config.PidFile # "" THEN Append(log, "PidFileStored") ELSE log
              /\ pc' = "Database"
              /\ UNCHANGED <<exitCode, uiError>>
    /\ UNCHANGED <<cfgVars, kmsVars, lsnVars, deferred, Logger>>
    /\ UNCHANGED <<ctxVars, dbVars, subVars, guardVars>>
    /\ UNCHANGED sigVars
    /\ UNCHANGED <<enrVars, healthVars>>

(***************************************************************************)
(* Run lines 344-358: the database is opened (controller only).            *)
(***************************************************************************)
ErrNoDatabaseUrl == "url not specified in controller.database config block"
ErrParseDatabaseUrl == "Error parsing database url"
ErrConnectDatabase == "Error connecting to database"

Database ==
    /\ pc = "Database"
    /\ \E urlOk \in BOOLEAN, connOk \in BOOLEAN :
         LET err == IF ~Config.HasController THEN ""
                    ELSE IF Config.DatabaseUrl = "" THEN ErrNoDatabaseUrl
                    ELSE IF ~urlOk THEN ErrParseDatabaseUrl
                    ELSE IF ~connOk THEN ErrConnectDatabase
                    ELSE ""
         IN  IF err # ""
             THEN /\ Return(1, err)
                  /\ UNCHANGED <<database, deferred, log>>
             ELSE IF Config.HasController
             THEN /\ database' = "connected"
                  /\ log' = Append(log, "DBConnect")
                  /\ pc' = "connectSchemaManager"
                  /\ UNCHANGED <<deferred, exitCode, uiError>>
             ELSE \* line 369: no controller, the shutdown functions are deferred
                  /\ deferred' = Append(deferred, "RunShutdownFuncs")
                  /\ pc' = "StartWorker"
                  /\ UNCHANGED <<database, log, exitCode, uiError>>
    /\ UNCHANGED <<cfgVars, kmsVars, lsnVars, pidFile, ShutdownFuncs, Logger, ctxVars,
                   SchemaManager, managers, locks, ckState, rks, subVars, guardVars>>
    /\ UNCHANGED sigVars
    /\ UNCHANGED <<enrVars, healthVars>>

(***************************************************************************)
(* connectSchemaManager, lines 613-656.                                    *)
(***************************************************************************)
ErrSchemaManager == "Can't get schema manager"
ErrSharedLock == "Unable to gain shared access to the database"
ErrSchemaState == "Error checking schema state"
ErrNotInitialized == "The database has not been initialized. Please run 'boundary database init'."
ErrDirty == "Database is in a bad state. Please revert the database into the last known good state."
ErrMustMigrate == "Database schema must be updated to use this version. Run 'boundary database migrate' to update the database."
ErrBinaryTooOld == "Newer schema version than this binary expects. Please use a newer version of the boundary binary."

NoState ==
    [ Read |-> FALSE, InitializationStarted |-> FALSE, Dirty |-> FALSE,
      BinarySchemaVersion |-> 0, DatabaseSchemaVersion |-> 0 ]

SchemaStates ==
    [ Read : {TRUE}, InitializationStarted : BOOLEAN, Dirty : BOOLEAN,
      BinarySchemaVersion : 1..MaxSchemaVersion, DatabaseSchemaVersion : 1..MaxSchemaVersion ]

\* a SchemaStateCheck that compares the versions before it looks at the dirty flag
SchemaStateCheck_VersionsFirst(st) ==
    IF ~st.InitializationStarted THEN ErrNotInitialized
    ELSE IF st.BinarySchemaVersion > st.DatabaseSchemaVersion THEN ErrMustMigrate
    ELSE IF st.BinarySchemaVersion < st.DatabaseSchemaVersion THEN ErrBinaryTooOld
    ELSE IF st.Dirty THEN ErrDirty
    ELSE ""

\* lines 639-652
SchemaStateCheck(st) ==
    IF ~st.InitializationStarted THEN ErrNotInitialized
    ELSE IF st.Dirty THEN ErrDirty
    ELSE IF st.BinarySchemaVersion > st.DatabaseSchemaVersion THEN ErrMustMigrate
    ELSE IF st.BinarySchemaVersion < st.DatabaseSchemaVersion THEN ErrBinaryTooOld
    ELSE ""

connectSchemaManager ==
    /\ pc = "connectSchemaManager"
    /\ \E newOk \in BOOLEAN, lockOk \in BOOLEAN, stateOk \in BOOLEAN, st \in SchemaStates :
         LET sm  == managers + 1
             locked == newOk /\ lockOk
             read == locked /\ stateOk
             err == IF ~newOk THEN ErrSchemaManager
                    ELSE IF ~lockOk THEN ErrSharedLock
                    ELSE IF ~stateOk THEN ErrSchemaState
                    ELSE SchemaStateCheck(st)
         IN  /\ managers' = IF newOk THEN sm ELSE managers
             /\ SchemaManager' = IF newOk THEN sm ELSE SchemaManager
             /\ locks' = IF locked THEN locks \cup {sm} ELSE locks
             /\ ShutdownFuncs' = IF locked THEN Append(ShutdownFuncs, UnlockFunc(sm))
                                 ELSE ShutdownFuncs
             /\ ckState' = IF read THEN st ELSE NoState
             /\ IF err = ""
                THEN /\ gpc' = "Ping"      \* line 654: go c.ensureManagerConnection()
                     /\ log' = Append(log, "SchemaVerified")
                     /\ pc' = "verifyKmsSetup"
                     /\ UNCHANGED <<exitCode, uiError>>
                ELSE /\ Return(1, err)
                     /\ UNCHANGED <<gpc, log>>
    /\ UNCHANGED <<cfgVars, kmsVars, lsnVars, pidFile, deferred, Logger, ctxVars, database,
                   rks, subVars, failedPings, lastReattach, guardCancelled>>
    /\ UNCHANGED sigVars
    /\ UNCHANGED <<enrVars, healthVars>>

(***************************************************************************)
(* verifyKmsSetup, lines 704-722, and Run lines 363-373.  rks holds the    *)
(* root-key scopes of the database (db) and those the query returned       *)
(* (listed).                                                               *)
(***************************************************************************)
\* line 364: the message of line 643, wrapped by base.WrapAtLength; the suffix tells them apart
ErrBadState == "Database is in a bad state. Please revert the database into the last known good state. (kms)"

Scopes == {"global", "o_1234567890"}

\* kms.WithLimit(1)
RootKeyLimit == 1

NoKeys == [db |-> <<>>, listed |-> <<>>]

\* kmsRepo.ListRootKeys with a limit
ListRootKeys(keys, limit) ==
    SubSeq(keys, 1, IF Len(keys) < limit THEN Len(keys) ELSE limit)

\* lines 716-721
FindGlobalRootKey(listed) == \E i \in DOMAIN listed : listed[i] = "global"

verifyKmsSetup ==
    /\ pc = "verifyKmsSetup"
    /\ ckState' = NoState    \* connectSchemaManager has returned
    /\ \E repoOk \in BOOLEAN, listOk \in BOOLEAN, keys \in SeqsUpTo(Scopes, MaxRootKeys) :
         LET listed == ListRootKeys(keys, RootKeyLimit)
         IN  IF repoOk /\ listOk /\ FindGlobalRootKey(listed)
             THEN /\ rks' = NoKeys
                  /\ log' = Append(log, "KmsVerified")
                  /\ deferred' = Append(deferred, "RunShutdownFuncs")
                  /\ pc' = "StartController"
                  /\ UNCHANGED <<exitCode, uiError>>
             ELSE /\ rks' = IF repoOk /\ listOk THEN [db |-> keys, listed |-> listed]
                            ELSE NoKeys
                  /\ Return(1, ErrBadState)
                  /\ UNCHANGED <<log, deferred>>
    /\ UNCHANGED <<cfgVars, kmsVars, lsnVars, pidFile, ShutdownFuncs, Logger, ctxVars,
                   database, SchemaManager, managers, locks, subVars, guardVars>>
    /\ UNCHANGED sigVars
    /\ UNCHANGED <<enrVars, healthVars>>

(***************************************************************************)
(* Run lines 378-383 with StartController, lines 452-474.                  *)
(***************************************************************************)
ErrControllerNew == "Error initializing controller"
ErrControllerStart == "Error starting controller"
ErrControllerShutdown == "Error shutting down controller"

StartController ==
    /\ pc = "StartController"
    /\ \E newOk \in BOOLEAN, startOk \in BOOLEAN, shutdownOk \in BOOLEAN :
         IF ~newOk
         THEN /\ Return(1, ErrControllerNew)
              /\ UNCHANGED <<controller, log>>
         ELSE IF ~startOk
         THEN /\ controller' = "shutdown"
              /\ log' = Append(log, "controller.Shutdown(false)")
              /\ Return(1, IF shutdownOk THEN ErrControllerStart ELSE ErrControllerShutdown)
         ELSE /\ controller' = "started"
              /\ log' = Append(log, "ControllerStart")
              /\ pc' = IF Config.HasWorker THEN "StartWorker" ELSE "WaitForInterrupt"
              /\ UNCHANGED <<exitCode, uiError>>
    /\ UNCHANGED <<cfgVars, kmsVars, lsnVars, pidFile, ShutdownFuncs, deferred, Logger,
                   ctxVars, dbVars, worker, guardVars>>
    /\ UNCHANGED sigVars
    /\ UNCHANGED <<enrVars, healthVars>>

(***************************************************************************)
(* Run lines 385-393 with StartWorker, lines 476-498.                      *)
(***************************************************************************)
ErrWorkerNew == "Error initializing worker"
ErrWorkerStart == "Error starting worker"
ErrWorkerShutdown == "Error shutting down worker"
ErrNilController == "panic: nil pointer dereference"

\* a rollback that leaves the controller running
WorkerFailureRollback_None(ctl) == <<>>

\* lines 386-391: what Run does with the error of StartWorker
WorkerFailureRollback(ctl) ==
    IF ctl = "nil" THEN <<"controller.Shutdown(false) on nil">>
    ELSE <<"controller.Shutdown(false)">>

\* lines 488-495: what StartWorker does when worker.Start fails
WorkerStartFailure == <<"worker.Shutdown(false)">>

StartWorker ==
    /\ pc = "StartWorker"
    /\ \E newOk \in BOOLEAN, startOk \in BOOLEAN, shutdownOk \in BOOLEAN, panics \in BOOLEAN :
         IF newOk /\ startOk
         THEN /\ worker' = "started"
              /\ log' = Append(log, "WorkerStart")
              /\ pc' = "WaitForInterrupt"
              /\ UNCHANGED <<controller, exitCode, uiError>>
         ELSE /\ worker' = IF newOk THEN "shutdown" ELSE "nil"
              /\ log' = log \o (IF newOk THEN WorkerStartFailure ELSE <<>>)
                            \o WorkerFailureRollback(controller)
              /\ controller' = IF controller = "nil" THEN "nil" ELSE "shutdown"
              /\ IF controller = "nil" /\ panics
                 THEN Return(2, ErrNilController)
                 ELSE Return(1, IF ~newOk THEN ErrWorkerNew
                                ELSE IF shutdownOk THEN ErrWorkerStart
                                ELSE ErrWorkerShutdown)
    /\ UNCHANGED <<cfgVars, kmsVars, lsnVars, pidFile, ShutdownFuncs, deferred, Logger,
                   ctxVars, dbVars, guardVars>>
    /\ UNCHANGED sigVars
    /\ UNCHANGED <<enrVars, healthVars>>

(***************************************************************************)
(* WaitForInterrupt, lines 500-521: the root context is done.              *)
(***************************************************************************)
\* a shutdown that stops the controller before the worker
ShutdownSequence_ControllerFirst(cfg, workerErr) ==
    (IF cfg.HasController
     THEN <<IF cfg.HasWorker THEN "controller.Shutdown(true)"
            ELSE "controller.Shutdown(false)">>
     ELSE <<>>)
    \o (IF cfg.HasWorker
        THEN <<"worker.Shutdown(false)",
               IF workerErr THEN "worker.Shutdown returned error"
               ELSE "worker.Shutdown returned nil">>
        ELSE <<>>)

\* lines 509-519: the shutdown calls, in order
ShutdownSequence(cfg, workerErr) ==
    (IF cfg.HasWorker
     THEN <<"worker.Shutdown(false)",
            IF workerErr THEN "worker.Shutdown returned error"
            ELSE "worker.Shutdown returned nil">>
     ELSE <<>>)
    \o (IF cfg.HasController
        THEN <<IF cfg.HasWorker THEN "controller.Shutdown(true)"
               ELSE "controller.Shutdown(false)">>
        ELSE <<>>)

\* line 579
WaitForInterruptResult == 0

ContextDone ==
    /\ pc = "WaitForInterrupt"
    /\ ctxDone
    /\ \E workerErr \in BOOLEAN :
         log' = log \o <<"ShutdownTriggered">> \o ShutdownSequence(Config, workerErr)
    /\ worker' = IF Config.HasWorker THEN "shutdown" ELSE worker
    /\ controller' = IF Config.HasController THEN "shutdown" ELSE controller
    /\ Return(WaitForInterruptResult, uiError)
    /\ UNCHANGED <<cfgVars, kmsVars, lsnVars, pidFile, ShutdownFuncs, deferred, Logger,
                   ctxVars, dbVars, guardVars>>
    /\ UNCHANGED sigVars
    /\ UNCHANGED <<enrVars, healthVars>>

(***************************************************************************)
(* Reload, lines 582-609.                                                  *)
(***************************************************************************)
\* a test for the key containing the prefix anywhere
HasPrefix_Contains(k, prefix) == \E i \in DOMAIN k : k[i] = prefix

\* strings.HasPrefix on a key, whose first token is "listener|" or not
HasPrefix(k, prefix) == Len(k) > 0 /\ k[1] = prefix

\* the non-nil callbacks registered under any key
Callbacks(funcs) == UNION {{funcs[k][i] : i \in DOMAIN funcs[k]} : k \in DOMAIN funcs} \ {0}

\* a Reload that runs the callbacks of every key
Invocations_AnyKey(funcs, cb) ==
    Cardinality(UNION {{<<k, i>> : i \in {j \in DOMAIN funcs[k] :
                                              funcs[k][j] # 0 /\ funcs[k][j] = cb}} :
                       k \in DOMAIN funcs})

\* lines 588-599: how often Reload invokes callback cb
Invocations(funcs, cb) ==
    Cardinality(UNION {{<<k, i>> : i \in {j \in DOMAIN funcs[k] :
                                              funcs[k][j] # 0 /\ funcs[k][j] = cb}} :
                       k \in {key \in DOMAIN funcs : HasPrefix(key, "listener|")}})

ReloadCalls(funcs) == [cb \in Callbacks(funcs) |-> Invocations(funcs, cb)]

\* line 608: Reload returns an error when an invoked callback returned one
ReloadError(funcs, failing) == \E cb \in failing : ReloadCalls(funcs)[cb] > 0

(***************************************************************************)
(* WaitForInterrupt, lines 523-570: a SIGHUP.  load is what config.LoadFile*)
(* returned: "error", "nil" (no configuration) or "ok".                    *)
(***************************************************************************)
NoReload ==
    [ load |-> "none", calls |-> <<>>, failed |-> {}, err |-> FALSE, notified |-> FALSE,
      edited |-> FALSE ]

\* a handler that skips Reload when the configuration did not load
RunReloadFuncs_OnlyLoaded(load, funcs) == IF load = "ok" THEN funcs ELSE <<>>

\* lines 531-568: every path of the handler reaches RUNRELOADFUNCS, where Reload
\* goes through c.ReloadFuncs whatever config.LoadFile returned
RunReloadFuncs(load, funcs) == funcs

\* lines 531-565: the level the logger has after the reload
ReloadedLevel(flag, load, newConf, level) ==
    IF flag = "" \/ load # "ok" THEN level
    ELSE IF newConf.LogLevel = EmptyString THEN level
    ELSE IF LevelOf(newConf.LogLevel) = "unknown" THEN level
    ELSE LevelOf(newConf.LogLevel)

\* a send on ReloadedCh that waits for a receiver
ReloadedSend_Blocking(receiver) == IF receiver THEN "sent" ELSE "blocked"

\* lines 603-606: the message is sent if somebody receives, else Reload goes on
ReloadedSend(receiver) == IF receiver THEN "sent" ELSE "skipped"

HandleSighup ==
    /\ pc = "WaitForInterrupt"
    /\ sighupCh
    /\ sighupCh' = FALSE
    /\ \E load \in {"error", "nil", "ok"}, receiver \in BOOLEAN,
          failing \in SUBSET {cb \in Callbacks(ReloadFuncs) : ReloadCalls(ReloadFuncs)[cb] > 0} :
         LET newConf == LoadFile(configFile)
             funcs   == RunReloadFuncs(load, ReloadFuncs)
         IN  /\ Logger' = ReloadedLevel(flagConfig, load, newConf, Logger)
             /\ lastReload' =
                   [ load     |-> IF flagConfig = "" THEN "skipped" ELSE load,
                     calls    |-> ReloadCalls(funcs),
                     failed   |-> {cb \in failing \cap Callbacks(funcs) :
                                      ReloadCalls(funcs)[cb] > 0},
                     err      |-> ReloadError(funcs, failing \cap Callbacks(funcs)),
                     notified |-> ReloadedSend(receiver) = "sent",
                     edited   |-> FALSE ]
             /\ pc' = IF ReloadedSend(receiver) = "blocked" THEN "Reload" ELSE pc
    /\ reloadCount' = reloadCount + 1
    /\ UNCHANGED <<cfgVars, kmsVars, lsnVars, pidFile, ShutdownFuncs, deferred, exitCode,
                   uiError, log, ctxVars, dbVars, subVars, guardVars, sigusr2Ch,
                   signalBudget, ReloadFuncs>>
    /\ UNCHANGED <<enrVars, healthVars>>

\* lines 572-575: a SIGUSR2 logs the stacks of all goroutines
HandleSigUSR2 ==
    /\ pc = "WaitForInterrupt"
    /\ sigusr2Ch
    /\ sigusr2Ch' = FALSE
    /\ UNCHANGED <<cfgVars, kmsVars, lsnVars, runVars, Logger, ctxVars, dbVars, subVars,
                   guardVars, sighupCh, signalBudget, ReloadFuncs, reloadCount, lastReload>>
    /\ UNCHANGED <<enrVars, healthVars>>

(***************************************************************************)
(* The signals of the environment.  A signal sent before the dispatch loop *)
(* waits in its channel, which is as if it were sent when the loop starts. *)
(***************************************************************************)
Sighup ==
    /\ pc = "WaitForInterrupt"
    /\ signalBudget > 0
    /\ ~sighupCh
    /\ sighupCh' = TRUE
    /\ signalBudget' = signalBudget - 1
    /\ UNCHANGED <<cfgVars, kmsVars, lsnVars, runVars, Logger, ctxVars, dbVars, subVars,
                   guardVars, sigusr2Ch, ReloadFuncs, reloadCount, lastReload>>
    /\ UNCHANGED <<enrVars, healthVars>>

SigUSR2 ==
    /\ pc = "WaitForInterrupt"
    /\ signalBudget > 0
    /\ ~sigusr2Ch
    /\ sigusr2Ch' = TRUE
    /\ signalBudget' = signalBudget - 1
    /\ UNCHANGED <<cfgVars, kmsVars, lsnVars, runVars, Logger, ctxVars, dbVars, subVars,
                   guardVars, sighupCh, ReloadFuncs, reloadCount, lastReload>>
    /\ UNCHANGED <<enrVars, healthVars>>

(***************************************************************************)
(* The deferred calls of Run, last registered first.                       *)
(***************************************************************************)
Top(stack) == stack[Len(stack)]

Pop(stack) == SubSeq(stack, 1, Len(stack) - 1)

RECURSIVE Reverse(_)
Reverse(seq) == IF Len(seq) = 0 THEN <<>> ELSE Append(Reverse(Tail(seq)), Head(seq))

\* base.Server.RunShutdownFuncs: every registered function runs, last registered first
ShutdownLog(funcs) == [i \in DOMAIN funcs |-> Reverse(funcs)[i].fn]

\* lines 369-373
DeferRunShutdownFuncs ==
    /\ pc = "Defers"
    /\ Len(deferred) > 0 /\ Top(deferred) = "RunShutdownFuncs"
    /\ deferred' = Pop(deferred)
    /\ pidFile' = IF \E i \in DOMAIN ShutdownFuncs : ShutdownFuncs[i].fn = "RemovePidFile"
                  THEN FALSE ELSE pidFile
    /\ \E unlockOk \in BOOLEAN :
         locks' = IF unlockOk
                  THEN locks \ {ShutdownFuncs[i].sm : i \in DOMAIN ShutdownFuncs}
                  ELSE locks
    /\ log' = log \o ShutdownLog(ShutdownFuncs)
    /\ UNCHANGED <<cfgVars, kmsVars, lsnVars, ShutdownFuncs, pc, exitCode, uiError, Logger,
                   ctxVars, database, SchemaManager, managers, ckState, rks, subVars,
                   guardVars>>
    /\ UNCHANGED sigVars
    /\ UNCHANGED <<enrVars, healthVars>>

\* lines 134-140
DeferFinalize ==
    /\ pc = "Defers"
    /\ Len(deferred) > 0 /\ Top(deferred) = "configWrapper.Finalize"
    /\ deferred' = Pop(deferred)
    /\ configWrapper' = "finalized"
    /\ finalizeCount' = finalizeCount + 1
    /\ log' = Append(log, "ConfigWrapperFinalize")
    /\ UNCHANGED <<cfgVars, RootKms, WorkerAuthKms, lsnVars, pidFile, ShutdownFuncs, pc,
                   exitCode, uiError, Logger, ctxVars, dbVars, subVars, guardVars>>
    /\ UNCHANGED sigVars
    /\ UNCHANGED <<enrVars, healthVars>>

\* line 127: the last deferred call; Run returns after it
DeferCancelFn ==
    /\ pc = "Defers"
    /\ Len(deferred) > 0 /\ Top(deferred) = "CancelFn"
    /\ deferred' = Pop(deferred)
    /\ ctxDone' = TRUE
    /\ cancelledBy' = IF ctxDone THEN cancelledBy ELSE "defer"
    /\ pc' = "Done"
    /\ UNCHANGED <<cfgVars, kmsVars, lsnVars, pidFile, ShutdownFuncs, exitCode, uiError, log,
                   Logger, dbVars, subVars, guardVars>>
    /\ UNCHANGED sigVars
    /\ UNCHANGED <<enrVars, healthVars>>

(***************************************************************************)
(* SIGINT or SIGTERM: the root context is cancelled.                       *)
(***************************************************************************)
Interrupt ==
    /\ pc \notin {"Defers", "Done"}
    /\ ~ctxDone
    /\ ctxDone' = TRUE
    /\ cancelledBy' = "signal"
    /\ UNCHANGED <<cfgVars, kmsVars, lsnVars, runVars, Logger, dbVars, subVars, guardVars>>
    /\ UNCHANGED sigVars
    /\ UNCHANGED <<enrVars, healthVars>>

(***************************************************************************)
(* ensureManagerConnection, lines 661-702.                                 *)
(***************************************************************************)
\* a test that tries to recover whatever the state of the root context
NeedsReattach_IgnoreContext(pingOk, done) ==
    ~pingOk

\* line 677: err != nil && c.Context.Err() == nil
NeedsReattach(pingOk, done) ==
    ~pingOk /\ ~done

\* line 677: the ping and the test of its error
GuardPing ==
    /\ gpc = "Ping"
    /\ pc # "Done"
    /\ \E pingOk \in BOOLEAN :
         /\ NeedsReattach(pingOk, ctxDone) => managers < MaxManagers
         /\ IF NeedsReattach(pingOk, ctxDone)
            THEN /\ gpc' = "Reattach"
                 /\ failedPings' = failedPings + 1
            ELSE /\ gpc' = "Select"
                 /\ failedPings' = IF pingOk THEN 0 ELSE failedPings
    /\ UNCHANGED <<cfgVars, kmsVars, lsnVars, runVars, Logger, ctxVars, dbVars, subVars,
                   lastReattach, guardCancelled>>
    /\ UNCHANGED sigVars
    /\ UNCHANGED <<enrVars, healthVars>>

\* a re-attach that goes on without the shared lock
ReattachOutcome_IgnoreLockError(newOk, lockOk) ==
    IF ~newOk THEN "cancel" ELSE "continue"

\* lines 679-691: the loop continues after a re-attach, or cancels the root context
ReattachOutcome(newOk, lockOk) ==
    IF ~newOk THEN "cancel"
    ELSE IF lockOk THEN "continue"
    ELSE "cancel"

\* lines 678-691: a new manager and a fresh shared lock, or the root context is cancelled
GuardReattach ==
    /\ gpc = "Reattach"
    /\ pc # "Done"
    /\ \E newOk \in BOOLEAN, lockOk \in BOOLEAN :
         LET sm == managers + 1
         IN  /\ managers' = IF newOk THEN sm ELSE managers
             /\ SchemaManager' = IF newOk THEN sm ELSE 0
             /\ locks' = IF newOk /\ lockOk THEN locks \cup {sm} ELSE locks
             /\ lastReattach' = IF ~newOk THEN "NewManager failed"
                                ELSE IF ~lockOk THEN "SharedLock failed"
                                ELSE "ok"
             /\ IF ReattachOutcome(newOk, lockOk) = "continue"
                THEN /\ gpc' = "Ping"
                     /\ UNCHANGED <<ctxVars, guardCancelled>>
                ELSE /\ guardCancelled' = TRUE
                     /\ ctxDone' = TRUE
                     /\ cancelledBy' = IF ctxDone THEN cancelledBy ELSE "schemaGuard"
                     /\ gpc' = "Done"
    /\ UNCHANGED <<cfgVars, kmsVars, lsnVars, runVars, Logger, database, ckState, rks,
                   subVars, failedPings>>
    /\ UNCHANGED sigVars
    /\ UNCHANGED <<enrVars, healthVars>>

\* lines 694-700: the next tick, or the end of the root context
GuardSelect ==
    /\ gpc = "Select"
    /\ pc # "Done"
    /\ \E case \in {"tick"} \cup (IF ctxDone THEN {"done"} ELSE {}) :
         gpc' = IF case = "tick" THEN "Ping" ELSE "Done"
    /\ UNCHANGED <<cfgVars, kmsVars, lsnVars, runVars, Logger, ctxVars, dbVars, subVars,
                   failedPings, lastReattach, guardCancelled>>
    /\ UNCHANGED sigVars
    /\ UNCHANGED <<enrVars, healthVars>>

(***************************************************************************)
(* Specifications.                                                         *)
(***************************************************************************)
\* values of controller_generated_activation_token
NoToken == ""
ValidToken == "neslat_valid"
MalformedToken == "neslat_malformed"
ActivationTokens == {NoToken, ValidToken, MalformedToken}

\* the worker process has not started and nothing is stored under auth_storage_path
InitEnrollment(tokens) ==
    /\ enrollState = "Stopped"
    /\ credentials = FALSE
    /\ activationToken \in tokens
    /\ liveToken = NoToken
    /\ tokenConsumed = FALSE
    /\ tokenReads = 0
    /\ tokenPresented = 0
    /\ workerStarts = 0

\* health.go line 18 (NewService): the zero value of Service
InitHealth ==
    /\ replyWithServiceUnavailable = FALSE
    /\ inFlight = <<>>
    /\ replies = <<>>

InitWith(files, levels, funcs) ==
    /\ configFile \in files
    /\ flagConfig = ""
    /\ flagLogLevel \in levels
    /\ Config = NilConfig
    /\ configWrapper = "nil"
    /\ finalizeCount = 0
    /\ Logger = "info"
    /\ RootKms = FALSE
    /\ WorkerAuthKms = FALSE
    /\ clusterAddr = EmptyAddr
    /\ foundApi = FALSE
    /\ foundProxy = FALSE
    /\ listenersBound = FALSE
    /\ pidFile = FALSE
    /\ ShutdownFuncs = <<>>
    /\ deferred = <<>>
    /\ pc = "ParseFlagsAndConfig"
    /\ exitCode = -1
    /\ uiError = ""
    /\ log = <<>>
    /\ ctxDone = FALSE
    /\ cancelledBy = ""
    /\ database = "nil"
    /\ SchemaManager = 0
    /\ managers = 0
    /\ locks = {}
    /\ ckState = NoState
    /\ rks = NoKeys
    /\ controller = "nil"
    /\ worker = "nil"
    /\ gpc = "Idle"
    /\ failedPings = 0
    /\ lastReattach = "none"
    /\ guardCancelled = FALSE
    /\ sighupCh = FALSE
    /\ sigusr2Ch = FALSE
    /\ signalBudget = MaxSignals
    /\ ReloadFuncs \in funcs
    /\ reloadCount = 0
    /\ lastReload = NoReload

\* the complete configuration example of the PKI worker documentation
PKIWorkerExample ==
    [GoodConfig(FALSE, TRUE) EXCEPT
        !.WorkerName = "",
        !.WorkerControllers = <<<<"10.0.0.1">>, <<"10.0.0.2">>, <<"10.0.0.3">>>>,
        !.Listeners = <<Listener(<<"proxy">>, <<"127.0.0.1">>)>>,
        !.KmsPurposes = {"worker-auth-storage"},
        !.PidFile = ""]

\* configuration files of the whole life of the process
LifecycleConfigs ==
    {GoodConfig(r[1], r[2]) : r \in Roles}
    \cup {[GoodConfig(TRUE, FALSE) EXCEPT !.KmsPurposes = @ \cup {"config"}],
          [GoodConfig(FALSE, TRUE) EXCEPT !.PidFile = ""],
          GoodConfig(FALSE, FALSE),
          [GoodConfig(TRUE, TRUE) EXCEPT !.ControllerName = ""],
          [GoodConfig(TRUE, TRUE) EXCEPT !.WorkerName = ""],
          [GoodConfig(TRUE, FALSE) EXCEPT !.DatabaseUrl = ""],
          PKIWorkerExample}

Init ==
    /\ InitWith(LifecycleConfigs, {EmptyString}, {<<>>})
    /\ InitEnrollment({NoToken})
    /\ InitHealth

Validation ==
    \/ ParseFlagsAndConfig
    \/ SetupLogging
    \/ SetupMetrics
    \/ SetupKMSes
    \/ ListenerChecks
    \/ WorkerChecks
    \/ SetupListeners
    \/ PublicAddrs
    \/ StorePidFile

Next ==
    \/ Validation
    \/ Database
    \/ connectSchemaManager
    \/ verifyKmsSetup
    \/ StartController
    \/ StartWorker
    \/ ContextDone
    \/ HandleSighup
    \/ HandleSigUSR2
    \/ Sighup
    \/ SigUSR2
    \/ DeferRunShutdownFuncs
    \/ DeferFinalize
    \/ DeferCancelFn
    \/ Interrupt
    \/ GuardPing
    \/ GuardReattach
    \/ GuardSelect

Spec == Init /\ [][Next]_vars

\* Run up to the PID file, over configuration files that vary listeners and upstreams
InitValidate ==
    /\ InitWith(ListenerConfigs \cup UpstreamConfigs \cup ClusterConfigs, {EmptyString}, {<<>>})
    /\ InitEnrollment({NoToken})
    /\ InitHealth

NextValidate ==
    \/ Validation
    \/ DeferCancelFn

SpecValidate == InitValidate /\ [][NextValidate]_vars

(***************************************************************************)
(* A worker that is sent SIGHUPs while the configuration file is edited.   *)
(***************************************************************************)
\* values of log_level in the configuration file, and of the -log-level flag
LogLevels ==
    { EmptyString,
      <<" ", " ">>,
      <<"t", "r", "a", "c", "e">>,
      <<"D", "E", "B", "U", "G">>,
      <<" ", "I", "n", "f", "o", " ">>,
      <<"n", "o", "t", "i", "c", "e">>,
      <<"w", "a", "r", "n">>,
      <<" ", "W", "a", "r", "n", "i", "n", "g">>,
      <<"e", "r", "r">>,
      <<"E", "R", "R", "O", "R">>,
      <<"l", "o", "u", "d">> }

FlagLevels == {EmptyString, <<"d", "e", "b", "u", "g">>}

\* reload callbacks that other code registered on the embedded base.Server
PreRegistered ==
    { <<>>,
      [k \in {<<"seal|", "listener|">>, <<"listener|", "unix">>} |->
          IF k[1] = "seal|" THEN <<10>> ELSE <<0, 11>>] }

ReloadConfigs ==
    {[GoodConfig(FALSE, TRUE) EXCEPT
         !.Listeners = <<TLSListener(<<"proxy">>, EmptyAddr), Listener(<<"proxy">>, EmptyAddr)>>,
         !.LogLevel = l] : l \in {<<"w", "a", "r", "n">>}}

\* the configuration file is edited on disk: line 535 reads it again
EditConfigFile ==
    /\ pc = "WaitForInterrupt"
    /\ signalBudget > 0
    /\ \E l \in LogLevels \ {configFile.LogLevel} :
          configFile' = [configFile EXCEPT !.LogLevel = l]
    /\ lastReload' = [lastReload EXCEPT !.edited = TRUE]
    /\ UNCHANGED <<flagConfig, flagLogLevel, Config, kmsVars, lsnVars, runVars, Logger, ctxVars,
                   dbVars, subVars, guardVars, sighupCh, sigusr2Ch, signalBudget, ReloadFuncs,
                   reloadCount>>
    /\ UNCHANGED <<enrVars, healthVars>>

InitReload ==
    /\ InitWith(ReloadConfigs, FlagLevels, PreRegistered)
    /\ InitEnrollment({NoToken})
    /\ InitHealth

\* the steps of Run in the worker role, and the environment
NextReload ==
    \/ Validation
    \/ Database
    \/ StartWorker
    \/ ContextDone
    \/ HandleSighup
    \/ HandleSigUSR2
    \/ Sighup
    \/ SigUSR2
    \/ EditConfigFile
    \/ Interrupt
    \/ DeferRunShutdownFuncs
    \/ DeferCancelFn

SpecReload == InitReload /\ [][NextReload]_vars

\* the dispatch loop of a worker started without a log level flag; the select of
\* line 505 takes the branch of the cancelled root context when it stays ready
InitSignals ==
    /\ InitWith(ReloadConfigs, {EmptyString}, {<<>>})
    /\ InitEnrollment({NoToken})
    /\ InitHealth

SpecSignals == InitSignals /\ [][NextReload]_vars /\ WF_vars(ContextDone)

(***************************************************************************)
(* The worker's enrollment over several starts of the worker process.      *)
(* StartWorker (lines 476-498) calls worker.New and worker.Start, which    *)
(* are outside this package; the state machine below follows section 4.G   *)
(* of the specification and the PKI worker documentation.                  *)
(***************************************************************************)
\* most starts of the worker process
MaxStarts == 3
\* most presentations of the activation token the upstreams answer
MaxPresentations == 3

\* a start that does not look at the stored credentials
EnrollmentOnStart_IgnoreStored(stored) ==
    "NeedsCredentials"

\* step 1: a valid signed certificate under auth_storage_path authorizes the worker
EnrollmentOnStart(stored) ==
    IF stored THEN "Authorized" ELSE "NeedsCredentials"

\* step 3: the upstream's answer to a presented activation token
PresentOutcome(token, consumed, transient) ==
    IF transient THEN "transient"
    ELSE IF token = ValidToken /\ ~consumed THEN "success"
    ELSE "permanent"

\* worker.Start, step 1
WorkerStart ==
    /\ enrollState = "Stopped"
    /\ workerStarts < MaxStarts
    /\ workerStarts' = workerStarts + 1
    /\ enrollState' = EnrollmentOnStart(credentials)
    /\ UNCHANGED <<credentials, activationToken, liveToken, tokenConsumed, tokenReads,
                   tokenPresented>>
    /\ UNCHANGED <<cmdVars, healthVars>>

\* step 2: the activation token of the configuration is resolved
ResolveToken ==
    /\ enrollState = "NeedsCredentials"
    /\ activationToken # NoToken
    /\ liveToken' = activationToken
    /\ tokenReads' = tokenReads + 1
    /\ enrollState' = "HasActivationToken"
    /\ UNCHANGED <<credentials, activationToken, tokenConsumed, tokenPresented, workerStarts>>
    /\ UNCHANGED <<cmdVars, healthVars>>

\* step 3: the token is presented on a dial
PresentToken ==
    /\ enrollState = "HasActivationToken"
    /\ tokenPresented < MaxPresentations
    /\ tokenPresented' = tokenPresented + 1
    /\ \E transient \in BOOLEAN :
         LET outcome == PresentOutcome(liveToken, tokenConsumed, transient)
         IN  /\ credentials' = (credentials \/ outcome = "success")
             /\ tokenConsumed' = (tokenConsumed \/ outcome = "success")
             /\ liveToken' = IF outcome = "success" THEN NoToken ELSE liveToken
             /\ enrollState' = CASE outcome = "success" -> "Authorized"
                                 [] outcome = "permanent" -> "AwaitingOperator"
                                 [] OTHER -> enrollState
    /\ UNCHANGED <<activationToken, tokenReads, workerStarts>>
    /\ UNCHANGED <<cmdVars, healthVars>>

\* step 4: without an activation token the worker publishes an auth request token
RequestAuthorization ==
    /\ enrollState = "NeedsCredentials"
    /\ activationToken = NoToken
    /\ enrollState' = "AwaitingOperator"
    /\ UNCHANGED <<credentials, activationToken, liveToken, tokenConsumed, tokenReads,
                   tokenPresented, workerStarts>>
    /\ UNCHANGED <<cmdVars, healthVars>>

\* step 4: an operator has submitted the request token and the handshake completes
CompleteHandshake ==
    /\ enrollState = "AwaitingOperator"
    /\ credentials' = TRUE
    /\ enrollState' = "Authorized"
    /\ UNCHANGED <<activationToken, liveToken, tokenConsumed, tokenReads, tokenPresented,
                   workerStarts>>
    /\ UNCHANGED <<cmdVars, healthVars>>

\* the worker process ends; what it held in memory is gone
WorkerStop ==
    /\ enrollState # "Stopped"
    /\ enrollState' = "Stopped"
    /\ liveToken' = NoToken
    /\ UNCHANGED <<credentials, activationToken, tokenConsumed, tokenReads, tokenPresented,
                   workerStarts>>
    /\ UNCHANGED <<cmdVars, healthVars>>

InitEnroll ==
    /\ InitWith(ReloadConfigs, {EmptyString}, {<<>>})
    /\ InitEnrollment(ActivationTokens)
    /\ InitHealth

NextEnroll ==
    \/ WorkerStart
    \/ ResolveToken
    \/ PresentToken
    \/ RequestAuthorization
    \/ CompleteHandshake
    \/ WorkerStop

SpecEnroll == InitEnroll /\ [][NextEnroll]_vars

(***************************************************************************)
(* The health service, health.go lines 11-38.  GetHealth calls run in      *)
(* their own goroutines: a call reads replyWithServiceUnavailable (line    *)
(* 23) and replies later, and other calls and the function NewService      *)
(* returned may run in between.  The field is read and written without     *)
(* synchronisation; a read sees the value of the latest write.             *)
(***************************************************************************)
\* most GetHealth calls between their read and their reply
MaxInFlight == 2
\* most GetHealth calls in all
MaxHealthCalls == 4

StatusUnset == 0
\* http.StatusServiceUnavailable
StatusServiceUnavailable == 503

\* a GetHealth that never sets a status
GetHealthReply_NeverUnavailable(unavailable, setOk) ==
    [unavailable |-> unavailable, status |-> StatusUnset, err |-> FALSE]

\* lines 23-31: the status GetHealth sets and whether it returns an error;
\* setOk is whether handlers.SetStatusCode returned nil
GetHealthReply(unavailable, setOk) ==
    IF unavailable
    THEN IF setOk
         THEN [unavailable |-> TRUE, status |-> StatusServiceUnavailable, err |-> FALSE]
         ELSE [unavailable |-> TRUE, status |-> StatusUnset, err |-> TRUE]
    ELSE [unavailable |-> FALSE, status |-> StatusUnset, err |-> FALSE]

\* all but the i-th element
Remove(seq, i) == SubSeq(seq, 1, i - 1) \o SubSeq(seq, i + 1, Len(seq))

\* line 23: a call reads the field
GetHealthRead ==
    /\ Len(inFlight) < MaxInFlight
    /\ Len(inFlight) + Len(replies) < MaxHealthCalls
    /\ inFlight' = Append(inFlight, replyWithServiceUnavailable)
    /\ UNCHANGED <<replyWithServiceUnavailable, replies>>
    /\ UNCHANGED <<cmdVars, enrVars>>

\* lines 24-31: a call that has read the field sets the status and returns
GetHealth ==
    /\ \E i \in DOMAIN inFlight, setOk \in BOOLEAN :
         /\ replies' = Append(replies, GetHealthReply(inFlight[i], setOk))
         /\ inFlight' = Remove(inFlight, i)
    /\ UNCHANGED replyWithServiceUnavailable
    /\ UNCHANGED <<cmdVars, enrVars>>

\* lines 36-38
startServiceUnavailableReplies ==
    /\ replyWithServiceUnavailable' = TRUE
    /\ UNCHANGED <<inFlight, replies>>
    /\ UNCHANGED <<cmdVars, enrVars>>

InitService ==
    /\ InitWith({GoodConfig(TRUE, FALSE)}, {EmptyString}, {<<>>})
    /\ InitEnrollment({NoToken})
    /\ InitHealth

NextService ==
    \/ GetHealthRead
    \/ GetHealth
    \/ startServiceUnavailableReplies

SpecService == InitService /\ [][NextService]_vars

(***************************************************************************)
(* Properties.                                                             *)
(***************************************************************************)
InLog(e) == \E i \in DOMAIN log : log[i] = e

Returned == pc = "Done"

Combined == Config.HasController /\ Config.HasWorker

\* the listeners of the configuration whose purposes include p
WithPurpose(cfg, p) ==
    {i \in DOMAIN cfg.Listeners :
        \E j \in DOMAIN cfg.Listeners[i].Purpose : cfg.Listeners[i].Purpose[j] = p}

\* a listener with exactly one purpose, which is api, cluster or proxy
ValidListener(ln) == Len(ln.Purpose) = 1 /\ ln.Purpose[1] \in ListenerPurposes

\* the messages of the failures before the listener checks
EarlyErrors ==
    {ErrFlags, ErrWrapper, ErrWrapperInit, ErrNoConfigFlag, ErrParseConfig, ErrNoRole,
     ErrControllerName, ErrWorkerName, ErrLogging, ErrMetrics, ErrKms, ErrNoRootKms,
     ErrNoWorkerAuthKms}

ListenerErrors ==
    {ErrNoPurpose, ErrUnknownPurpose, ErrManyPurposes, ErrNoApiListener, ErrNoClusterListener}

UpstreamErrors ==
    {ErrCombinedUpstreams, ErrInvalidControllerAddr, ErrUnspecifiedControllerAddr,
     ErrMulticastControllerAddr}

\* Run has completed the listener checks of lines 186-226, whatever their verdict
ListenersJudged ==
    /\ pc \notin {"ParseFlagsAndConfig", "SetupLogging", "SetupMetrics", "SetupKMSes",
                  "ListenerChecks"}
    /\ uiError \notin EarlyErrors

ListenersAccepted == ListenersJudged /\ uiError \notin ListenerErrors

\* Run has completed the combined-mode switch of lines 232-265, whatever its verdict
UpstreamsJudged ==
    /\ Combined
    /\ ListenersAccepted
    /\ pc # "WorkerChecks"
    /\ uiError # ErrNoProxyListener

UpstreamsAccepted == UpstreamsJudged /\ uiError # ErrCombinedUpstreams

\* Run has reached line 292: every check before the listeners are bound has passed
ValidationPassed ==
    /\ ListenersAccepted
    /\ pc # "WorkerChecks"
    /\ uiError \notin UpstreamErrors \cup {ErrNoProxyListener}

(* C1: when the root context is done in the dispatch loop, worker.Shutdown   *)
(* is called and has returned (with or without error) before                 *)
(* controller.Shutdown is called; controller.Shutdown is called once, with   *)
(* waitForWorker = true exactly when a worker is configured.                 *)
ControllerShutdowns(i) ==
    {j \in DOMAIN log : j > i /\ log[j] \in {"controller.Shutdown(true)",
                                             "controller.Shutdown(false)"}}

C1_WorkerBeforeController ==
    \A i \in DOMAIN log :
        log[i] = "ShutdownTriggered" =>
            /\ Cardinality(ControllerShutdowns(i)) = IF Config.HasController THEN 1 ELSE 0
            /\ Combined =>
                  /\ Len(log) >= i + 3
                  /\ log[i + 1] = "worker.Shutdown(false)"
                  /\ log[i + 2] \in {"worker.Shutdown returned nil",
                                     "worker.Shutdown returned error"}
                  /\ log[i + 3] = "controller.Shutdown(true)"
            /\ (Config.HasController /\ ~Config.HasWorker) =>
                  /\ Len(log) >= i + 1
                  /\ log[i + 1] = "controller.Shutdown(false)"

C1_Witness ==
    /\ Combined
    /\ \E i \in DOMAIN log :
          /\ i + 1 \in DOMAIN log
          /\ log[i] = "worker.Shutdown returned error"
          /\ log[i + 1] = "controller.Shutdown(true)"

(* C2, as stated: a failed ping followed by a successful re-attach does not  *)
(* cancel the root context, and once two consecutive pings have failed and   *)
(* the second failure has been handled, the root context is cancelled and    *)
(* the loop has exited.                                                      *)
C2_TwoFailedPingsCancel ==
    /\ (lastReattach = "ok" /\ failedPings <= 1) => ~guardCancelled
    /\ (failedPings >= 2 /\ gpc # "Reattach") => (ctxDone /\ gpc = "Done")

(* C2, amended: the loop cancels the root context exactly when a re-attach   *)
(* failed (no new manager, or no shared lock), and then it has exited; a     *)
(* failed ping followed by a successful re-attach does not cancel, however   *)
(* many pings failed in a row.                                               *)
C2_FailedReattachCancels ==
    /\ guardCancelled <=> lastReattach \in {"NewManager failed", "SharedLock failed"}
    /\ guardCancelled => (ctxDone /\ gpc = "Done")
    /\ lastReattach = "ok" => ~guardCancelled

C2_Witness ==
    /\ failedPings = 2
    /\ lastReattach = "SharedLock failed"
    /\ cancelledBy = "schemaGuard"
    /\ gpc = "Done"

(* C3: after a shutdown that the schema guard triggered by cancelling the    *)
(* root context, Run returns 1; it returns 0 only after a shutdown that a    *)
(* signal requested.                                                         *)
C3_GuardShutdownExitsOne ==
    (Returned /\ InLog("ShutdownTriggered")) =>
        /\ cancelledBy = "schemaGuard" => exitCode = 1
        /\ exitCode = 0 => cancelledBy = "signal"

(* C4: connectSchemaManager succeeds exactly when a schema state was read    *)
(* that has initialization started, is not dirty and has equal versions;     *)
(* only then the liveness loop runs and the controller can start; otherwise  *)
(* Run returns 1 with the first applicable of NotInitialized, Dirty,         *)
(* MustMigrate, BinaryTooOld.                                                *)
SchemaGood(st) ==
    /\ st.Read
    /\ st.InitializationStarted
    /\ ~st.Dirty
    /\ st.BinarySchemaVersion = st.DatabaseSchemaVersion

ConnectErrors ==
    {ErrSchemaManager, ErrSharedLock, ErrSchemaState, ErrNotInitialized, ErrDirty,
     ErrMustMigrate, ErrBinaryTooOld}

C4_SchemaVerdict ==
    /\ pc = "verifyKmsSetup" => (SchemaGood(ckState) /\ gpc # "Idle")
    /\ uiError \in ConnectErrors =>
          /\ ~SchemaGood(ckState)
          /\ pc \in {"Defers", "Done"} /\ exitCode = 1
          /\ gpc = "Idle" /\ controller = "nil" /\ ~InLog("SchemaVerified")
    /\ ckState.Read =>
          /\ SchemaGood(ckState) <=> pc = "verifyKmsSetup"
          /\ uiError = ErrNotInitialized <=> ~ckState.InitializationStarted
          /\ uiError = ErrDirty <=> (ckState.InitializationStarted /\ ckState.Dirty)
          /\ uiError = ErrMustMigrate <=>
                /\ ckState.InitializationStarted /\ ~ckState.Dirty
                /\ ckState.BinarySchemaVersion > ckState.DatabaseSchemaVersion
          /\ uiError = ErrBinaryTooOld <=>
                /\ ckState.InitializationStarted /\ ~ckState.Dirty
                /\ ckState.BinarySchemaVersion < ckState.DatabaseSchemaVersion
    /\ (gpc # "Idle" \/ controller # "nil") => InLog("SchemaVerified")
    /\ uiError \in {ErrSchemaManager, ErrSharedLock, ErrSchemaState} => ~ckState.Read

C4_Witness ==
    /\ Returned /\ exitCode = 1
    /\ ckState.Read /\ ckState.InitializationStarted /\ ckState.Dirty
    /\ ckState.BinarySchemaVersion > ckState.DatabaseSchemaVersion
    /\ uiError = ErrDirty

(* C5: in combined mode, when the worker fails to start after the controller *)
(* was started, the worker is shut down (when worker.Start failed: a worker  *)
(* that could not be created has nothing to shut down), then the controller  *)
(* is shut down with waitForWorker = false, and Run returns 1 without        *)
(* entering the dispatch loop.                                               *)
C5_WorkerStartFailure ==
    (Combined /\ uiError \in {ErrWorkerNew, ErrWorkerStart, ErrWorkerShutdown}) =>
        /\ pc \in {"Defers", "Done"} /\ exitCode = 1
        /\ ~InLog("ShutdownTriggered") /\ ~InLog("WorkerStart")
        /\ controller = "shutdown"
        /\ \E i \in DOMAIN log :
              /\ log[i] = "ControllerStart"
              /\ IF uiError = ErrWorkerNew
                 THEN /\ Len(log) >= i + 1
                      /\ log[i + 1] = "controller.Shutdown(false)"
                 ELSE /\ Len(log) >= i + 2
                      /\ log[i + 1] = "worker.Shutdown(false)"
                      /\ log[i + 2] = "controller.Shutdown(false)"

C5_Witness ==
    /\ Combined /\ Returned /\ exitCode = 1
    /\ uiError = ErrWorkerStart
    /\ worker = "shutdown" /\ controller = "shutdown"

(* C6, as stated: in combined mode the upstream list of the configuration    *)
(* file is accepted exactly when every entry equals the cluster listener     *)
(* address, or equals controller.public_cluster_addr, or has a host that is  *)
(* no IP literal, whatever the length of the list.                           *)
\* the address of the cluster listener, with Run's default for an empty one
ClusterListenerAddr(cfg) ==
    LET last == CHOOSE i \in WithPurpose(cfg, "cluster") :
                    \A j \in WithPurpose(cfg, "cluster") : j <= i
    IN  IF cfg.Listeners[last].Address = EmptyAddr THEN DefaultClusterAddr
        ELSE cfg.Listeners[last].Address

EntryAllowed(cfg, a) ==
    \/ a = ClusterListenerAddr(cfg)
    \/ a = cfg.PublicClusterAddr
    \/ IsDomainName(a)

C6_EveryEntryJudged ==
    UpstreamsJudged =>
        (UpstreamsAccepted <=>
            \A i \in DOMAIN configFile.WorkerControllers :
                EntryAllowed(configFile, configFile.WorkerControllers[i]))

(* C6, amended: in combined mode the switch of lines 232-265 accepts the     *)
(* upstream list exactly when it is empty, or has one entry that equals the  *)
(* cluster listener address, or equals controller.public_cluster_addr, or    *)
(* has a host that is no IP literal; a list of two or more entries is        *)
(* rejected whatever its entries are.                                        *)
C6_AtMostOneEntry ==
    UpstreamsJudged =>
        (UpstreamsAccepted <=>
            \/ Len(configFile.WorkerControllers) = 0
            \/ /\ Len(configFile.WorkerControllers) = 1
               /\ EntryAllowed(configFile, configFile.WorkerControllers[1]))

C6_Witness ==
    /\ UpstreamsJudged /\ Returned /\ exitCode = 1
    /\ uiError = ErrCombinedUpstreams
    /\ Len(configFile.WorkerControllers) = 2
    /\ \A i \in DOMAIN configFile.WorkerControllers :
          configFile.WorkerControllers[i] = ClusterListenerAddr(configFile)

(* C7: with a controller block, Run gets past validation only if a listener  *)
(* of purpose api and one of purpose cluster exist and the root KMS          *)
(* resolved; if one of the three is missing Run returns 1 and no listener is *)
(* bound, no PID file written and no subsystem started.                      *)
C7_ControllerNeeds ==
    (Config.Loaded /\ Config.HasController
        /\ (\/ WithPurpose(Config, "api") = {}
            \/ WithPurpose(Config, "cluster") = {}
            \/ ~RootKms)) =>
        /\ ~ValidationPassed
        /\ ~listenersBound /\ ~pidFile /\ controller = "nil" /\ worker = "nil"
        /\ Returned => exitCode = 1

C7_Witness ==
    /\ Config.HasController /\ Returned /\ exitCode = 1
    /\ WithPurpose(Config, "api") # {}
    /\ WithPurpose(Config, "cluster") = {}
    /\ RootKms /\ WorkerAuthKms
    /\ uiError = ErrNoClusterListener

C9_ExactlyOneEach ==
    (Config.HasController /\ ValidationPassed) =>
        /\ Cardinality(WithPurpose(Config, "api")) = 1
        /\ Cardinality(WithPurpose(Config, "cluster")) = 1

(* C9, amended: with a controller, the listener checks pass exactly when     *)
(* every listener has one purpose out of api, cluster, proxy and there is at *)
(* least one listener of purpose api and at least one of purpose cluster;    *)
(* two api listeners or two cluster listeners are not rejected.              *)
C9_AtLeastOneEach ==
    (Config.HasController /\ ListenersJudged) =>
        (ListenersAccepted <=>
            /\ \A i \in DOMAIN Config.Listeners : ValidListener(Config.Listeners[i])
            /\ Cardinality(WithPurpose(Config, "api")) >= 1
            /\ Cardinality(WithPurpose(Config, "cluster")) >= 1)

C9_Witness ==
    /\ Config.HasController /\ listenersBound
    /\ Cardinality(WithPurpose(Config, "api")) = 2
    /\ Cardinality(WithPurpose(Config, "cluster")) = 1

(* C10: Run reaches the binding of the listeners only if every configured    *)
(* listener has exactly one purpose, which is api, cluster or proxy; with a  *)
(* listener of no, several or an unknown purpose Run returns 1 and binds no  *)
(* listener, in every role.                                                  *)
C10_OnePurposePerListener ==
    (Config.Loaded
        /\ \E i \in DOMAIN Config.Listeners : ~ValidListener(Config.Listeners[i])) =>
        /\ ~ValidationPassed
        /\ ~listenersBound
        /\ Returned => exitCode = 1

C10_Witness ==
    /\ ~Config.HasController /\ Config.HasWorker
    /\ Returned /\ exitCode = 1 /\ ~listenersBound
    /\ uiError = ErrUnknownPurpose
    /\ \E i \in DOMAIN Config.Listeners : Config.Listeners[i].Purpose = <<"proxy">>

(* C11: with a controller configured, when a cluster listener has an         *)
(* address whose host is the unspecified IP address 0.0.0.0 or :: and        *)
(* controller.public_cluster_addr is empty, Run returns 1 and the PID file   *)
(* is not written, the database not contacted and no subsystem started.      *)
\* the addresses whose host is 0.0.0.0 or ::
UnspecifiedAddrs ==
    {WithPort("0.0.0.0"), <<"0.0.0.0">>, WithPort("[::]"), TooManyColons("0.0.0.0")}

UnspecifiedCluster(cfg) ==
    \E i \in WithPurpose(cfg, "cluster") : cfg.Listeners[i].Address \in UnspecifiedAddrs

SighupHandled == reloadCount' = reloadCount + 1

Normalised(l) == ToLower(TrimSpace(l))

\* the level named by a normalised log_level, "" when it names none
NamedLevel(n) ==
    IF n = <<"t", "r", "a", "c", "e">> THEN "trace"
    ELSE IF n = <<"d", "e", "b", "u", "g">> THEN "debug"
    ELSE IF n = <<"n", "o", "t", "i", "c", "e">> \/ n = <<"i", "n", "f", "o">> \/ n = <<>>
    THEN "info"
    ELSE IF n = <<"w", "a", "r", "n">> \/ n = <<"w", "a", "r", "n", "i", "n", "g">> THEN "warn"
    ELSE IF n = <<"e", "r", "r">> \/ n = <<"e", "r", "r", "o", "r">> THEN "error"
    ELSE ""

KeepsRunning == pc' = "WaitForInterrupt" /\ exitCode' = exitCode /\ ctxDone' = ctxDone

C12_EmptyMeansInfo ==
    [][(SighupHandled /\ lastReload'.load = "ok") =>
           /\ KeepsRunning
           /\ Logger' = IF NamedLevel(Normalised(configFile.LogLevel)) = "" THEN Logger
                        ELSE NamedLevel(Normalised(configFile.LogLevel))]_vars

(* C12, amended: as stated, except that a log_level that is the empty string *)
(* leaves the logger level as it was; only a log_level of spaces is empty    *)
(* after trimming and sets info.                                             *)
C12_EmptyLeavesLevel ==
    [][(SighupHandled /\ lastReload'.load = "ok") =>
           /\ KeepsRunning
           /\ Logger' = IF configFile.LogLevel = <<>> THEN Logger
                        ELSE IF NamedLevel(Normalised(configFile.LogLevel)) = "" THEN Logger
                        ELSE NamedLevel(Normalised(configFile.LogLevel))]_vars

C12_Witness ==
    /\ pc = "WaitForInterrupt" /\ reloadCount > 0 /\ lastReload.load = "ok"
    /\ configFile.LogLevel = <<"E", "R", "R", "O", "R">>
    /\ Logger = "error"

(* C13: a call of Reload invokes every non-nil callback registered under a   *)
(* key that starts with "listener|" exactly once and no callback of another  *)
(* key, whether or not callbacks fail, and returns an error exactly when an  *)
(* invoked callback failed.                                                  *)
C13_ReloadDispatch ==
    reloadCount > 0 =>
        /\ \A k \in DOMAIN ReloadFuncs : \A i \in DOMAIN ReloadFuncs[k] :
              ReloadFuncs[k][i] # 0 =>
                  lastReload.calls[ReloadFuncs[k][i]] = IF k[1] = "listener|" THEN 1 ELSE 0
        /\ lastReload.err <=> lastReload.failed # {}
        /\ \A cb \in lastReload.failed : lastReload.calls[cb] = 1

C13_Witness ==
    /\ reloadCount > 0
    /\ DOMAIN ReloadFuncs = {<<"seal|", "listener|">>, <<"listener|", "unix">>, ListenerKey}
    /\ lastReload.failed = {1}
    /\ lastReload.err
    /\ lastReload.calls[11] = 1
    /\ lastReload.calls[10] = 0

(* C14, as stated: the configuration is loaded before any KMS wrapper is     *)
(* initialised; KMS initialisation completes before the database connection  *)
(* is opened; database connect and schema verification complete before the   *)
(* controller is started; in combined mode the controller start completes    *)
(* before the worker start begins.                                           *)
\* every occurrence of b in the log has an a before it
Before(a, b) ==
    \A j \in DOMAIN log : log[j] = b => \E i \in DOMAIN log : i < j /\ log[i] = a

\* the log entries the start of the worker makes, successful or not
WorkerStartEvents == {"WorkerStart", "worker.Shutdown(false)"}

StartupOrderAfterLoad ==
    /\ Before("ConfigLoaded", "KMSInit")
    /\ Before("KMSInit", "DBConnect")
    /\ Before("DBConnect", "SchemaVerified")
    /\ Before("SchemaVerified", "ControllerStart")
    /\ Before("KmsVerified", "ControllerStart")
    /\ Combined => \A e \in WorkerStartEvents : Before("ControllerStart", e)
    /\ pc \in {"StartWorker", "WaitForInterrupt"} =>
          /\ InLog("KMSInit")
          /\ Config.HasController => InLog("ControllerStart")

C14_ConfigBeforeAnyKms ==
    /\ Before("ConfigLoaded", "ConfigWrapperInit")
    /\ StartupOrderAfterLoad

(* C14, amended: the config-purpose KMS wrapper, when there is one, is       *)
(* initialised before the configuration is loaded; the configuration is      *)
(* loaded before the other KMS wrappers are initialised; the rest as stated. *)
C14_ConfigWrapperFirst ==
    /\ \A i \in DOMAIN log, j \in DOMAIN log :
          (log[i] = "ConfigWrapperInit" /\ log[j] = "ConfigLoaded") => i < j
    /\ configWrapper # "nil" => Before("ConfigWrapperInit", "ConfigLoaded")
    /\ StartupOrderAfterLoad

C14_Witness ==
    /\ InLog("ConfigWrapperInit")
    /\ InLog("ConfigLoaded")
    /\ InLog("KMSInit")
    /\ InLog("ControllerStart")
    /\ pc = "WaitForInterrupt"

(* C15: with a controller, the PID file is written only after the database   *)
(* connection, the schema check and the root-key verification have all       *)
(* succeeded; a startup that fails in one of the three has written no PID    *)
(* file.                                                                     *)
DatabaseErrors ==
    {ErrNoDatabaseUrl, ErrParseDatabaseUrl, ErrConnectDatabase, ErrBadState} \cup ConnectErrors

C15_PidFileAfterDatabase ==
    Config.HasController =>
        /\ Before("DBConnect", "PidFileStored")
        /\ Before("SchemaVerified", "PidFileStored")
        /\ Before("KmsVerified", "PidFileStored")
        /\ uiError \in DatabaseErrors => (~InLog("PidFileStored") /\ ~pidFile)

(* C16: on shutdown the worker is shut down before the controller, the       *)
(* controller before any KMS wrapper is finalized (the config-purpose        *)
(* wrapper included), and the KMS wrappers are finalized before the PID file *)
(* is removed.                                                               *)
\* every a in the log comes before every b
Precedes(a, b) ==
    \A i \in DOMAIN log, j \in DOMAIN log : (log[i] = a /\ log[j] = b) => i < j

C16_TeardownOrder ==
    InLog("ShutdownTriggered") =>
        /\ Precedes("worker.Shutdown(false)", "controller.Shutdown(true)")
        /\ Precedes("controller.Shutdown(true)", "ConfigWrapperFinalize")
        /\ Precedes("controller.Shutdown(false)", "ConfigWrapperFinalize")
        /\ Precedes("ConfigWrapperFinalize", "RemovePidFile")
        /\ (InLog("ConfigWrapperInit") /\ InLog("RemovePidFile")) =>
              Before("ConfigWrapperFinalize", "RemovePidFile")

(* C17, as stated: in a SIGHUP cycle whose configuration failed to load, no  *)
(* reload callback runs.                                                     *)
\* the non-nil callbacks registered under the keys that start with "listener|"
ListenerCallbacks ==
    UNION {{ReloadFuncs[k][i] : i \in DOMAIN ReloadFuncs[k]} :
           k \in {key \in DOMAIN ReloadFuncs : key[1] = "listener|"}} \ {0}

Invoked(reload, cb) == cb \in DOMAIN reload.calls /\ reload.calls[cb] > 0

C17_NoCallbackWithoutConfig ==
    (reloadCount > 0 /\ lastReload.load # "ok") =>
        \A cb \in ListenerCallbacks : ~Invoked(lastReload, cb)

(* C17, amended: every SIGHUP cycle invokes the listener reload callbacks,   *)
(* also a cycle whose configuration failed to load, was empty or named an    *)
(* unknown log level; in such a cycle only the logger level is left alone.   *)
C17_CallbacksInEveryCycle ==
    [][SighupHandled =>
           /\ \A cb \in ListenerCallbacks : Invoked(lastReload', cb)
           /\ lastReload'.load # "ok" => Logger' = Logger
           /\ lastReload'.load \in {"error", "nil", "ok"}]_vars

C17_Witness ==
    /\ reloadCount > 0
    /\ lastReload.load = "error"
    /\ ListenerCallbacks = {1, 11}
    /\ \A cb \in ListenerCallbacks : Invoked(lastReload, cb)

(* C18: a SIGHUP that follows another SIGHUP, with the configuration file    *)
(* not edited in between and loading with the same result, changes nothing   *)
(* of the logger level, the configuration, the registered reload functions   *)
(* and the subsystems; it only invokes each listener reload callback once    *)
(* more.                                                                     *)
SecondSighupUnchangedFile ==
    /\ SighupHandled
    /\ reloadCount >= 1
    /\ ~lastReload.edited
    /\ lastReload'.load = lastReload.load

C18_SecondSighupIdempotent ==
    [][SecondSighupUnchangedFile =>
           /\ Logger' = Logger
           /\ Config' = Config /\ configFile' = configFile
           /\ ReloadFuncs' = ReloadFuncs
           /\ controller' = controller /\ worker' = worker
           /\ pc' = pc /\ listenersBound' = listenersBound /\ pidFile' = pidFile
           /\ lastReload'.calls = lastReload.calls
           /\ \A cb \in DOMAIN lastReload'.calls :
                 lastReload'.calls[cb] = IF cb \in ListenerCallbacks THEN 1 ELSE 0]_vars

C18_Witness ==
    /\ reloadCount = 2
    /\ ~lastReload.edited
    /\ lastReload.load = "ok"
    /\ flagLogLevel = <<"d", "e", "b", "u", "g">>
    /\ configFile.LogLevel = <<"t", "r", "a", "c", "e">>
    /\ Logger = "trace"
    /\ worker = "started"

(* C19: the root-key verification fails only when the database holds no root *)
(* key of the global scope, however many root keys of other scopes there are *)
(* and in whatever order they are listed; when it fails Run returns 1.       *)
C19_GlobalKeyFound ==
    uiError = ErrBadState =>
        /\ pc \in {"Defers", "Done"} /\ exitCode = 1
        /\ \A i \in DOMAIN rks.db : rks.db[i] # "global"

(* C20: once the config-purpose wrapper has been initialised it is finalized *)
(* exactly once by the time Run has returned, on every exit path, and never  *)
(* more than once.                                                           *)
C20_FinalizedExactlyOnce ==
    /\ finalizeCount <= 1
    /\ (pc = "Done" /\ configWrapper = "init") => finalizeCount = 1

(* C21: with a valid activation token in the configuration, a worker       *)
(* without stored credentials goes from NeedsCredentials to                *)
(* HasActivationToken and from there to Authorized, storing its            *)
(* credentials; once credentials are stored every start goes directly to   *)
(* Authorized and the token, still in the configuration, is neither        *)
(* resolved nor presented again.                                           *)
Leaves(from) ==
    enrollState = from /\ enrollState' \notin {from, "Stopped"}

C21_ControllerLedEnrollment ==
    [][activationToken = ValidToken =>
        /\ Leaves("Stopped") =>
              enrollState' = IF credentials THEN "Authorized" ELSE "NeedsCredentials"
        /\ Leaves("NeedsCredentials") => enrollState' = "HasActivationToken"
        /\ Leaves("HasActivationToken") => (enrollState' = "Authorized" /\ ~credentials)
        /\ enrollState' = "Authorized" => credentials'
        /\ credentials =>
              /\ credentials' /\ activationToken' = ValidToken
              /\ tokenReads' = tokenReads /\ tokenPresented' = tokenPresented
              /\ enrollState' \in {"Stopped", "Authorized"}]_vars

C21_Witness ==
    /\ activationToken = ValidToken
    /\ workerStarts >= 2
    /\ enrollState = "Authorized"
    /\ tokenReads = 1
    /\ tokenConsumed
    /\ credentials

(* C22: the complete configuration example of the PKI worker documentation *)
(* (a proxy listener, a worker block without name, one KMS block of        *)
(* purpose worker-auth-storage) passes the checks of Run and reaches the   *)
(* start of the worker: Run reports none of its validation errors.         *)
ValidationErrors ==
    {ErrNoRole, ErrControllerName, ErrWorkerName, ErrNoRootKms, ErrNoWorkerAuthKms,
     ErrNoProxyListener, ErrUnspecifiedCluster, ErrInvalidClusterAddr}
    \cup ListenerErrors \cup UpstreamErrors

C22_PKIExampleStarts ==
    configFile = PKIWorkerExample => uiError \notin ValidationErrors

(* C23: the schema liveness loop calls the root cancel function only when  *)
(* a ping failed while the root context was not cancelled and the one      *)
(* re-attach that followed failed (no new manager, or no shared lock); a   *)
(* re-attach is attempted only for such a ping; and once the loop has      *)
(* cancelled it has ended, so it pings no more.                            *)
ReattachFailures == {"NewManager failed", "SharedLock failed"}

C23_CancelOnlyAfterFailedReattach ==
    [][/\ (guardCancelled' /\ ~guardCancelled) =>
              /\ gpc = "Reattach" /\ failedPings >= 1
              /\ lastReattach' \in ReattachFailures
              /\ ctxDone' /\ gpc' = "Done"
       /\ (gpc' = "Reattach" /\ gpc # "Reattach") =>
              /\ gpc = "Ping" /\ ~ctxDone
              /\ failedPings' = failedPings + 1
       /\ (gpc = "Ping" /\ gpc' = "Select" /\ failedPings' = 0) => ~guardCancelled'
       /\ guardCancelled => (gpc = "Done" /\ gpc' = "Done")]_vars

C23_Witness ==
    /\ guardCancelled
    /\ gpc = "Done"
    /\ lastReattach = "SharedLock failed"
    /\ cancelledBy = "schemaGuard"

(* C24: the dispatch loop ends only through the branch of the cancelled    *)
(* root context.  Handling a SIGHUP, whatever the reload of the            *)
(* configuration and the reload callbacks returned and whether or not      *)
(* somebody receives on ReloadedCh, and handling a SIGUSR2 leave the loop  *)
(* running and the root context as it was; once the root context is        *)
(* cancelled the loop eventually performs the shutdown and returns.        *)
Sigusr2Handled == sigusr2Ch /\ ~sigusr2Ch'

LoopEnds == pc = "WaitForInterrupt" /\ pc' # "WaitForInterrupt"

C24_LoopEndsOnContextDone ==
    /\ [][/\ LoopEnds =>
                 /\ ctxDone
                 /\ Len(log') > Len(log) /\ log'[Len(log) + 1] = "ShutdownTriggered"
          /\ (SighupHandled \/ Sigusr2Handled) =>
                 /\ pc = "WaitForInterrupt" /\ ~LoopEnds
                 /\ ctxDone' = ctxDone /\ exitCode' = -1]_vars
    /\ (pc = "WaitForInterrupt" /\ ctxDone)
          ~> (pc # "WaitForInterrupt" /\ InLog("ShutdownTriggered") /\ exitCode = 0)

C24_Witness ==
    /\ pc = "Done"
    /\ reloadCount = 2
    /\ lastReload.load = "error"
    /\ lastReload.err
    /\ ~lastReload.notified
    /\ InLog("ShutdownTriggered")

(* C25: in the schema liveness loop every ping after the first follows a   *)
(* tick of the ticker: the loop comes to its ping either from its start or *)
(* from the select that received the tick, also after a re-attach.         *)
C25_TickBeforeEveryPing ==
    [][(gpc' = "Ping" /\ gpc # "Ping") => gpc \in {"Idle", "Select"}]_vars

(* C26: the shutdown functions release the shared lock of the schema       *)
(* manager the process has at that time: when they run and an unlock       *)
(* succeeds, the current manager holds no shared lock afterwards and no    *)
(* manager of the process is left holding one.                             *)
ShutdownFuncsRun ==
    /\ pc = "Defers" /\ Len(deferred) > 0 /\ Top(deferred) = "RunShutdownFuncs"
    /\ deferred' = Pop(deferred)

C26_CurrentManagerUnlocked ==
    [][(ShutdownFuncsRun /\ locks' # locks) => (SchemaManager \notin locks' /\ locks' = {})]_vars

(* C27: controller.Shutdown is called only on a controller that            *)
(* StartController created; without a controller block, a failure to start *)
(* the worker makes Run return 1 with no Shutdown call on the controller   *)
(* that was never created.                                                 *)
WorkerStartErrors == {ErrWorkerNew, ErrWorkerStart, ErrWorkerShutdown, ErrNilController}

C27_ShutdownOnlyOnCreatedController ==
    /\ ~InLog("controller.Shutdown(false) on nil")
    /\ (pc = "Done" /\ ~Config.HasController /\ uiError \in WorkerStartErrors) => exitCode = 1

(* C28: when Run has returned, every shutdown function that was registered *)
(* (removal of the PID file, release of the shared lock) has run, on every *)
(* exit path: in particular no PID file is left behind by a failure of the *)
(* database connect, the schema verification or the root-key verification. *)
C28_ShutdownFuncsOnEveryExit ==
    pc = "Done" =>
        /\ \A i \in DOMAIN ShutdownFuncs : InLog(ShutdownFuncs[i].fn)
        /\ ~pidFile

(* C29: the level of the logger obeys flag over configuration over default *)
(* at all times: in a process started with a log level flag the logger     *)
(* keeps the flag's level once logging is set up, whatever log_level a     *)
(* configuration reloaded on SIGHUP carries.                               *)
C29_FlagLevelKept ==
    (flagLogLevel # EmptyString /\ InLog("ListenersBound")) =>
        Logger = LevelOf(flagLogLevel)

(* C30: the health service is a one-way latch.  A GetHealth call that read *)
(* the field before the function returned by NewService was invoked sets   *)
(* no status; a call that reads it afterwards sets 503 or returns the      *)
(* error of setting it; the field never goes back; and GetHealth returns   *)
(* an error only when setting the status failed.                           *)
CallStarts == Len(inFlight') = Len(inFlight) + 1

C30_HealthLatch ==
    [][/\ replyWithServiceUnavailable => replyWithServiceUnavailable'
       /\ CallStarts => inFlight'[Len(inFlight')] = replyWithServiceUnavailable
       /\ \A i \in DOMAIN replies' :
             LET r == replies'[i]
             IN  /\ ~r.unavailable => (r.status = StatusUnset /\ ~r.err)
                 /\ r.unavailable => (r.status = StatusServiceUnavailable) # r.err
                 /\ r.err => r.status = StatusUnset]_vars

C30_Witness ==
    /\ replyWithServiceUnavailable
    /\ Len(replies) >= 3
    /\ ~replies[1].unavailable
    /\ replies[2].status = StatusServiceUnavailable
    /\ replies[3].err

====
